---- MODULE Spec2Model ----
(***************************************************************************)
(* A model of terminai's tool registry (tools/manager.py), its builtin     *)
(* tools (tools/builtin.py), its MCP connection variants                   *)
(* (mcp/connections/*.py), the connection manager (mcp/client.py) and the  *)
(* bridge that registers the servers' tools (tools/mcp_tools.py).          *)
(*                                                                         *)
(* Python exceptions are modelled as outcomes: an operation's record says  *)
(* whether it raised and which exception type.  `last` is a history        *)
(* variable: the most recent operation, its inputs and what it returned.   *)
(* Only subclasses of Exception are modelled; task cancellation and        *)
(* interpreter exit (BaseException) are outside the model.                 *)
(***************************************************************************)
EXTENDS Naturals, FiniteSets, Sequences, TLC

VARIABLES
    tools,        \* ToolManager.tools: name -> ToolDefinition (or NoTool)
    executors,    \* ToolManager.executors: name -> executor (or NoExecutor)
    conns,        \* the connection objects constructed so far, by identity
    connections,  \* MCPClient.connections: server name -> connection identity
    mcp_tools,    \* MCPToolWrapper.mcp_tools: unique tool name -> tool info
    mcp_resources,\* MCPToolWrapper.mcp_resources: server name -> resource list
    reply,        \* what the remote servers answer to a request made now
    host,         \* how the local file system and shell respond now
    pc,           \* where a refresh_server_tools call in progress stands
    last          \* the last operation performed and its outcome

vars == <<tools, executors, conns, connections, mcp_tools, mcp_resources,
          reply, host, pc, last>>

(***************************************************************************)
(* Tool registry: tools/manager.py                                         *)
(***************************************************************************)

ToolNames == {"t1", "t2"}
ParamNames == {"p", "q"}

\* A parameter definition handed to register_tool: the "required" key may be
\* true, false or absent from the dict.
RequiredFlags == {"true", "false", "absent"}

\* The `parameters` argument of register_tool: a dict from names to definitions.
ParamDicts == UNION {[S -> RequiredFlags] : S \in SUBSET ParamNames}

\* The `arguments` dict of execute_tool, by its keys.
ArgDicts == SUBSET ParamNames

NoTool == [registered |-> FALSE]
NoExecutor == "none"
NoError == [kind |-> "none", detail |-> {}]

\* The executors the callers register.  ex_ok(**kwargs) returns a successful
\* result; ex_raise(**kwargs) raises Exception("boom"); ex_strict(p=None) has
\* a fixed signature and raises TypeError when called with another keyword.
Executors == {"ex_ok", "ex_raise", "ex_strict"}

ToolResult(success, content, error) ==
    [success |-> success, content |-> content, error |-> error]

\* param.get("required", True)
RequiredOf(flag) == flag # "false"

ToolDefinitionAllRequired(parameters) ==
    [registered |-> TRUE,
     parameters |-> [n \in DOMAIN parameters |-> RequiredOf(parameters[n])],
     required   |-> DOMAIN parameters]

\* The ToolDefinition register_tool builds: the parameters with their
\* `required` attribute (default True) and the derived `required` list.
ToolDefinition(parameters) ==
    [registered |-> TRUE,
     parameters |-> [n \in DOMAIN parameters |-> RequiredOf(parameters[n])],
     required   |-> {n \in DOMAIN parameters : RequiredOf(parameters[n])}]

NoOp == [op |-> "none"]

\* No refresh_server_tools call is in progress.
Idle == [at |-> "idle"]

(***************************************************************************)
(* Connections: mcp/connections/base.py and the three variants             *)
(***************************************************************************)

\* The number of connection objects that exist at one time.
MaxConns == 2

ConnIds == 1..MaxConns
NoConn == 0
\* The names the servers are configured under: any strings, an underscore
\* included.
ServerNames == {"a", "a_b"}

\* A connection object.  `kind` is its class ("none": no object in this slot);
\* `started` tells that connect() has been called on it; `connected` is
\* self.connected; `handle` tells that the variant's session field is set
\* (HttpConnection.client, StdioConnection._session,
\* SSEConnection._session_context); `ctx` that StdioConnection._stdio_context
\* is set; `task` is SSEConnection._session_task: "null" for None, otherwise
\* the state of the task it refers to ("handshake": inside _run_session before
\* initialize() returned, "holding": in the keep-alive loop, "failed": ended
\* with an exception).
\* `held` tells that the code that constructed the object keeps a reference to
\* it (a caller using the connection class directly, as the test scripts do);
\* an object made inside connect_server is referenced by the manager's map only.
\* `call` is the call_tool() or read_resource() a caller has in flight on the
\* object: "none", "waiting" (the method has passed its guard and awaits the
\* answer of the session or client), "lost" (it awaits an answer that nothing
\* will deliver any more).
NoObject ==
    [kind |-> "none", started |-> FALSE, connected |-> FALSE, handle |-> FALSE,
     ctx |-> FALSE, task |-> "null", held |-> FALSE, call |-> "none"]

\* BaseConnection.__init__ and the variants' __init__.
NewObject(kind, held) == [NoObject EXCEPT !.kind = kind, !.held = held]

TaskRunning(conn) == conn.task \in {"handshake", "holding"}

is_connected(conn) == conn.connected /\ conn.handle

\* What the remote end answers to one request.  For Http it is the response
\* ("request_error": no response at all); for Stdio and Sse every answer but
\* "200" makes the session call raise.
Remotes(kind) ==
    IF kind = "http" THEN {"200", "401", "404", "500", "request_error"}
    ELSE {"200", "request_error"}

\* client.get/post followed by response.raise_for_status()
HttpRequest(remote) ==
    [raised |-> CASE remote = "200" -> "none"
                  [] remote = "request_error" -> "RequestError"
                  [] OTHER -> "HTTPStatusError",
     status |-> remote]

Answer(raised, value, contacted) ==
    [raised |-> raised, value |-> value, contacted |-> contacted]

\* ---- list_tools / list_resources -------------------------------------
ListUnguarded(conn, remote) ==
    IF ~conn.handle THEN Answer("none", "empty", FALSE)
    ELSE IF remote = "200" THEN Answer("none", "catalog", TRUE)
    ELSE Answer(IF conn.kind = "http" THEN HttpRequest(remote).raised
                ELSE "Exception", "none", TRUE)

\* The three variants have the same shape: no session -> [], otherwise the
\* request inside try/except Exception -> [].
ListCatalog(conn, remote) ==
    IF ~conn.handle THEN Answer("none", "empty", FALSE)
    ELSE IF remote = "200" THEN Answer("none", "catalog", TRUE)
    ELSE Answer("none", "empty", TRUE)

\* ---- call_tool / read_resource ---------------------------------------
HttpAction(conn, remote) ==
    IF ~conn.handle THEN Answer("MCPConnectionError", "none", FALSE)
    ELSE IF remote = "200" THEN Answer("none", "result", TRUE)
    ELSE Answer("MCPConnectionError", "none", TRUE)

StdioAction(conn, remote) ==
    IF ~conn.handle THEN Answer("MCPConnectionError", "none", FALSE)
    ELSE IF remote = "200" THEN Answer("none", "result", TRUE)
    ELSE Answer("Exception", "none", TRUE)

SseAction(conn, remote) ==
    IF ~conn.handle THEN Answer("MCPConnectionError", "none", FALSE)
    ELSE IF remote = "200" THEN Answer("none", "result", TRUE)
    ELSE Answer("MCPConnectionError", "none", TRUE)

\* call_tool and read_resource of a variant have the same guard and the same
\* error mapping.
RemoteAction(conn, remote) ==
    CASE conn.kind = "http" -> HttpAction(conn, remote)
      [] conn.kind = "stdio" -> StdioAction(conn, remote)
      [] conn.kind = "sse" -> SseAction(conn, remote)

\* ---- connect ---------------------------------------------------------
ConnectOutcomes(kind) ==
    CASE kind = "http" -> {"client_error", "200", "401", "500", "request_error"}
      [] kind = "stdio" -> {"no_mcp", "spawn_fail", "init_fail", "ok"}
      [] kind = "sse" -> {"ready", "failed", "unauthorized", "slow"}

ConnectResult(conn, raised, returned) ==
    [conn |-> conn, raised |-> raised, returned |-> returned]

\* HttpConnection.connect: build the client, probe with list_tools().
HttpConnect(conn, outcome) ==
    IF outcome = "client_error"
    THEN ConnectResult([conn EXCEPT !.started = TRUE], "MCPConnectionError", FALSE)
    ELSE LET c1 == [conn EXCEPT !.started = TRUE, !.handle = TRUE]
             probe == ListCatalog(c1, outcome)
         IN  CASE probe.raised = "none" ->
                    ConnectResult([c1 EXCEPT !.connected = TRUE], "none", TRUE)
               [] probe.raised = "HTTPStatusError" /\ outcome = "401" ->
                    ConnectResult(c1, "MCPAuthenticationError", FALSE)
               [] OTHER ->
                    ConnectResult(c1, "MCPConnectionError", FALSE)

\* A connect() that marks the object connected before initialize() returns.
StdioConnectMarkedEarly(conn, outcome) ==
    LET c0 == [conn EXCEPT !.started = TRUE]
    IN  CASE outcome = "no_mcp" ->
               ConnectResult(c0, "MCPConnectionError", FALSE)
          [] outcome = "spawn_fail" ->
               ConnectResult([c0 EXCEPT !.ctx = TRUE], "MCPConnectionError", FALSE)
          [] outcome = "init_fail" ->
               ConnectResult([c0 EXCEPT !.ctx = TRUE, !.handle = TRUE,
                                    !.connected = TRUE],
                         "MCPConnectionError", FALSE)
          [] outcome = "ok" ->
               ConnectResult([c0 EXCEPT !.ctx = TRUE, !.handle = TRUE,
                                    !.connected = TRUE], "none", TRUE)

\* StdioConnection.connect: spawn, ClientSession, initialize().  "no_mcp": the
\* mcp package is missing or StdioServerParameters rejects the configuration,
\* nothing is assigned; "spawn_fail": __aenter__ of the stdio context raises,
\* _stdio_context is already assigned; "init_fail": initialize() raises,
\* _stdio_context and _session are assigned and stay so.
StdioConnect(conn, outcome) ==
    LET c0 == [conn EXCEPT !.started = TRUE]
    IN  CASE outcome = "no_mcp" ->
               ConnectResult(c0, "MCPConnectionError", FALSE)
          [] outcome = "spawn_fail" ->
               ConnectResult([c0 EXCEPT !.ctx = TRUE], "MCPConnectionError", FALSE)
          [] outcome = "init_fail" ->
               ConnectResult([c0 EXCEPT !.ctx = TRUE, !.handle = TRUE],
                         "MCPConnectionError", FALSE)
          [] outcome = "ok" ->
               ConnectResult([c0 EXCEPT !.ctx = TRUE, !.handle = TRUE,
                                    !.connected = TRUE], "none", TRUE)

\* SSEConnection.connect: start _run_session as a task, sleep 2 seconds, look
\* at self.connected.  "ready": the task finished the handshake in that time;
\* "failed": the task ended with an exception in that time (its finally
\* clause has run); "unauthorized": the same, the exception being the
\* server's 401 response; "slow": the task is still in the handshake.  The
\* exception of the task stays in the task: connect() sees self.connected
\* false, raises "Connection failed to establish" and looks for "401" or
\* "Unauthorized" in that message.
SseConnect(conn, outcome) ==
    LET c0 == [conn EXCEPT !.started = TRUE]
    IN  CASE outcome = "ready" ->
               ConnectResult([c0 EXCEPT !.task = "holding", !.handle = TRUE,
                                    !.connected = TRUE], "none", TRUE)
          [] outcome \in {"failed", "unauthorized"} ->
               ConnectResult([c0 EXCEPT !.task = "failed"], "MCPConnectionError", FALSE)
          [] outcome = "slow" ->
               ConnectResult([c0 EXCEPT !.task = "handshake"], "MCPConnectionError", FALSE)

Connect(conn, outcome) ==
    CASE conn.kind = "http" -> HttpConnect(conn, outcome)
      [] conn.kind = "stdio" -> StdioConnect(conn, outcome)
      [] conn.kind = "sse" -> SseConnect(conn, outcome)

\* ---- disconnect ------------------------------------------------------
\* `teardown` tells whether closing the underlying client, session, process
\* or streams works ("clean") or raises ("error").
Teardowns == {"clean", "error"}

DisconnectResult(conn, raised) == [conn |-> conn, raised |-> raised]

HttpDisconnectUnguarded(conn, teardown) ==
    IF conn.handle /\ teardown = "error"
    THEN DisconnectResult(conn, "Exception")
    ELSE DisconnectResult([conn EXCEPT !.connected = FALSE, !.handle = FALSE], "none")

\* HttpConnection.disconnect: aclose() inside try/except, then clear.
HttpDisconnect(conn, teardown) ==
    DisconnectResult([conn EXCEPT !.connected = FALSE, !.handle = FALSE], "none")

\* StdioConnection.disconnect: close() and __aexit__ each inside try/except,
\* then clear.
StdioDisconnect(conn, teardown) ==
    DisconnectResult([conn EXCEPT !.connected = FALSE, !.handle = FALSE,
                              !.ctx = FALSE], "none")

SseDisconnectNoCancel(conn, teardown) ==
    DisconnectResult([conn EXCEPT !.connected = FALSE, !.handle = FALSE], "none")

\* cancel() without the await: the cancellation is requested and disconnect()
\* goes on to clear its fields; a running task has not yet run its way out.
SseDisconnectCancelOnly(conn, teardown) ==
    IF TaskRunning(conn)
    THEN DisconnectResult([conn EXCEPT !.connected = FALSE, !.handle = FALSE], "none")
    ELSE DisconnectResult([conn EXCEPT !.task = "null", !.connected = FALSE,
                                       !.handle = FALSE], "none")

\* SSEConnection.disconnect: cancel the task and await it.  A running task
\* ends by CancelledError (its finally clause clears connected and the
\* session) and the handle is dropped; a task that ended with another
\* exception, or whose cleanup raises one, makes the await raise it: the outer
\* except logs it and the assignments after the await are skipped.
SseDisconnect(conn, teardown) ==
    CASE conn.task = "null" ->
           DisconnectResult([conn EXCEPT !.connected = FALSE, !.handle = FALSE], "none")
      [] conn.task = "failed" ->
           DisconnectResult(conn, "none")
      [] TaskRunning(conn) /\ teardown = "clean" ->
           DisconnectResult([conn EXCEPT !.task = "null", !.connected = FALSE,
                                     !.handle = FALSE], "none")
      [] TaskRunning(conn) /\ teardown = "error" ->
           DisconnectResult([conn EXCEPT !.task = "failed", !.connected = FALSE,
                                     !.handle = FALSE], "none")

Disconnect(conn, teardown) ==
    CASE conn.kind = "http" -> HttpDisconnect(conn, teardown)
      [] conn.kind = "stdio" -> StdioDisconnect(conn, teardown)
      [] conn.kind = "sse" -> SseDisconnect(conn, teardown)

(***************************************************************************)
(* Direct use of a connection object, as in test_mcp_connection.py         *)
(***************************************************************************)

\* How many connection objects a caller constructs and keeps for itself.
MaxHeld == 2

Kinds == {"stdio", "http", "sse"}

FreeIds == {c \in ConnIds : conns[c].kind = "none"}
HeldIds == {c \in ConnIds : conns[c].kind # "none" /\ conns[c].held}
FirstFree == CHOOSE c \in FreeIds : \A d \in FreeIds : c <= d

\* An object holds something of the operating system or the event loop.
Live(conn) == conn.handle \/ conn.ctx \/ TaskRunning(conn)

\* Reference counting: an object that nobody references and that holds nothing
\* is gone.
Collect(objects, map) ==
    [c \in ConnIds |->
        IF /\ ~objects[c].held
           /\ \A n \in ServerNames : map[n] # c
           /\ ~Live(objects[c])
        THEN NoObject ELSE objects[c]]

new_connection(kind) ==
    /\ FreeIds # {}
    /\ Cardinality(HeldIds) < MaxHeld
    /\ conns' = [conns EXCEPT ![FirstFree] = NewObject(kind, TRUE)]
    /\ last' = [op |-> "new_connection", conn |-> FirstFree]
    /\ UNCHANGED <<pc, tools, executors, connections, mcp_tools, mcp_resources, reply, host>>

conn_connect(c, outcome) ==
    /\ c \in HeldIds
    /\ ~conns[c].started
    /\ outcome \in ConnectOutcomes(conns[c].kind)
    /\ LET o == Connect(conns[c], outcome)
       IN  /\ conns' = [conns EXCEPT ![c] = o.conn]
           /\ last' = [op |-> "connect", conn |-> c, outcome |-> outcome,
                       raised |-> o.raised, returned |-> o.returned]
    /\ UNCHANGED <<pc, tools, executors, connections, mcp_tools, mcp_resources, reply, host>>

conn_disconnect(c, teardown) ==
    /\ c \in HeldIds
    /\ LET o == Disconnect(conns[c], teardown)
       IN  /\ conns' = [conns EXCEPT ![c] = o.conn]
           /\ last' = [op |-> "disconnect", conn |-> c, teardown |-> teardown,
                       raised |-> o.raised, before |-> conns[c]]
    /\ UNCHANGED <<pc, tools, executors, connections, mcp_tools, mcp_resources, reply, host>>

\* list_tools() and list_resources()
conn_list(c, op, remote) ==
    /\ c \in HeldIds
    /\ remote \in Remotes(conns[c].kind)
    /\ LET o == ListCatalog(conns[c], remote)
       IN  last' = [op |-> op, conn |-> c, remote |-> remote,
                    raised |-> o.raised, value |-> o.value,
                    contacted |-> o.contacted,
                    wasConnected |-> is_connected(conns[c]),
                    before |-> conns[c]]
    /\ UNCHANGED <<pc, tools, executors, conns, connections, mcp_tools, mcp_resources, reply, host>>

\* call_tool(tool_name, arguments) and read_resource(uri)
conn_action(c, op, remote) ==
    /\ c \in HeldIds
    /\ remote \in Remotes(conns[c].kind)
    /\ LET o == RemoteAction(conns[c], remote)
       IN  last' = [op |-> op, conn |-> c, remote |-> remote,
                    raised |-> o.raised, value |-> o.value,
                    contacted |-> o.contacted,
                    wasConnected |-> is_connected(conns[c]),
                    before |-> conns[c]]
    /\ UNCHANGED <<pc, tools, executors, conns, connections, mcp_tools, mcp_resources, reply, host>>

\* SSEConnection._run_session, the background task: initialize() returns.
sse_handshake_done(c) ==
    /\ conns[c].kind = "sse"
    /\ conns[c].task = "handshake"
    /\ conns' = [conns EXCEPT ![c].task = "holding", ![c].handle = TRUE,
                              ![c].connected = TRUE]
    /\ last' = [op |-> "sse_handshake_done", conn |-> c]
    /\ UNCHANGED <<pc, tools, executors, connections, mcp_tools, mcp_resources, reply, host>>

\* A task that ends without its finally clause.
SseSessionErrorKeepsSession(c) ==
    /\ conns[c].kind = "sse"
    /\ TaskRunning(conns[c])
    /\ conns' = Collect([conns EXCEPT ![c].task = "failed"], connections)
    /\ last' = [op |-> "sse_session_error", conn |-> c]
    /\ UNCHANGED <<pc, tools, executors, connections, mcp_tools, mcp_resources, reply, host>>

\* SSEConnection._run_session, the background task: the stream or the
\* handshake raises; the finally clause clears connected and the session.
sse_session_error(c) ==
    /\ conns[c].kind = "sse"
    /\ TaskRunning(conns[c])
    /\ conns' = Collect([conns EXCEPT ![c].task = "failed", ![c].handle = FALSE,
                                      ![c].connected = FALSE], connections)
    /\ last' = [op |-> "sse_session_error", conn |-> c]
    /\ UNCHANGED <<pc, tools, executors, connections, mcp_tools, mcp_resources, reply, host>>

(***************************************************************************)
(* Connection manager: mcp/client.py                                       *)
(***************************************************************************)

\* config.get("type", "stdio"): the key may be absent, or hold any string.
ConfigTypes == {"absent", "stdio", "http", "sse", "websocket"}

CreateConnectionDefaultStdio(config_type) ==
    [raised |-> "none",
     kind |-> IF config_type \in Kinds THEN config_type ELSE "stdio"]

\* MCPClient._create_connection: the class to construct, or the error.
create_connection(config_type) ==
    LET connection_type == IF config_type = "absent" THEN "stdio" ELSE config_type
    IN  IF connection_type \in Kinds
        THEN [raised |-> "none", kind |-> connection_type]
        ELSE [raised |-> "MCPConfigurationError", kind |-> "none"]

StoreAlways(map, name, c, o) ==
    [map EXCEPT ![name] = c]

\* if success: self.connections[name] = connection
StoreIfSuccess(map, name, c, o) ==
    IF o.returned /\ o.raised = "none" THEN [map EXCEPT ![name] = c] ELSE map

get_connected_servers ==
    {n \in ServerNames :
        connections[n] # NoConn /\ is_connected(conns[connections[n]])}

connect_server(name, config_type) ==
    LET created == create_connection(config_type)
    IN  \/ /\ created.raised # "none"
           /\ last' = [op |-> "connect_server", name |-> name,
                       config_type |-> config_type, outcome |-> "none",
                       kind |-> created.kind,
                       raised |-> created.raised, returned |-> FALSE,
                       conn |-> NoConn, before |-> connections,
                       objectsBefore |-> conns]
           /\ UNCHANGED <<pc, tools, executors, conns, connections, mcp_tools, mcp_resources, reply, host>>
        \/ /\ created.raised = "none"
           /\ FreeIds # {}
           /\ \E outcome \in ConnectOutcomes(created.kind) :
                LET c == FirstFree
                    o == Connect(NewObject(created.kind, FALSE), outcome)
                    map == StoreIfSuccess(connections, name, c, o)
                    objects == Collect([conns EXCEPT ![c] = o.conn], map)
                IN  /\ connections' = map
                    /\ conns' = objects
                    /\ last' = [op |-> "connect_server", name |-> name,
                                config_type |-> config_type, outcome |-> outcome,
                                kind |-> created.kind,
                                raised |-> o.raised, returned |-> o.returned,
                                conn |-> c, before |-> connections]
           /\ UNCHANGED <<pc, tools, executors, mcp_tools, mcp_resources, reply, host>>

\* try: await disconnect(); del self.connections[name]  except Exception: log
RemoveAfterDisconnect(map, name, o) ==
    IF o.raised = "none" THEN [map EXCEPT ![name] = NoConn] ELSE map

\* A disconnect_server that looks the name up without the membership test.
DisconnectServerUnguarded(map, objects, name, teardown) ==
    IF map[name] = NoConn
    THEN [map |-> map, objects |-> objects, raised |-> "KeyError", called |-> NoConn]
    ELSE LET c == map[name]
             o == Disconnect(objects[c], teardown)
             m == RemoveAfterDisconnect(map, name, o)
         IN  [map |-> m, objects |-> Collect([objects EXCEPT ![c] = o.conn], m),
              raised |-> "none", called |-> c]

\* MCPClient.disconnect_server as a function of the map and the objects:
\* nothing happens for a name that is not in the map; otherwise disconnect()
\* is called on the stored object (`called`) and the entry is deleted unless
\* that call raised.
DisconnectServer(map, objects, name, teardown) ==
    IF map[name] = NoConn
    THEN [map |-> map, objects |-> objects, raised |-> "none", called |-> NoConn]
    ELSE LET c == map[name]
             o == Disconnect(objects[c], teardown)
             m == RemoveAfterDisconnect(map, name, o)
         IN  [map |-> m, objects |-> Collect([objects EXCEPT ![c] = o.conn], m),
              raised |-> "none", called |-> c]

disconnect_server(name, teardown) ==
    LET o == DisconnectServer(connections, conns, name, teardown)
    IN  /\ connections[name] = NoConn => teardown = "clean"
        /\ connections' = o.map
        /\ conns' = o.objects
        /\ last' = IF connections[name] = NoConn
                   THEN [op |-> "disconnect_server", name |-> name,
                         present |-> FALSE, teardown |-> teardown,
                         raised |-> o.raised, before |-> connections,
                         objectsBefore |-> conns]
                   ELSE [op |-> "disconnect_server", name |-> name,
                         present |-> TRUE, teardown |-> teardown,
                         kind |-> conns[connections[name]].kind,
                         wasLive |-> Live(conns[connections[name]]),
                         raised |-> o.raised]
        /\ UNCHANGED <<pc, tools, executors, mcp_tools, mcp_resources, reply, host>>

\* disconnect_all stopping at the first teardown that fails.
RECURSIVE DisconnectEachStopOnFailure(_, _, _)
DisconnectEachStopOnFailure(st, names, teardowns) ==
    IF names = {} THEN st
    ELSE LET name == CHOOSE n \in names : TRUE
             o == DisconnectServer(st.map, st.objects, name, teardowns[name])
         IN  IF teardowns[name] = "error" THEN st
             ELSE DisconnectEachStopOnFailure(
                      [map |-> o.map, objects |-> o.objects,
                       called |-> st.called \cup ({o.called} \ {NoConn})],
                      names \ {name}, teardowns)

\* for name in list(self.connections.keys()): await self.disconnect_server(name)
\* Each step acts on its own entry and its own object, so the order in which
\* the names are taken makes no difference to the result.
RECURSIVE DisconnectEach(_, _, _)
DisconnectEach(st, names, teardowns) ==
    IF names = {} THEN st
    ELSE LET name == CHOOSE n \in names : TRUE
             o == DisconnectServer(st.map, st.objects, name, teardowns[name])
         IN  DisconnectEach(
                 [map |-> o.map, objects |-> o.objects,
                  called |-> st.called \cup ({o.called} \ {NoConn})],
                 names \ {name}, teardowns)

\* MCPClient.disconnect_all; teardowns[n] tells how closing the connection
\* stored under n goes.
disconnect_all(teardowns) ==
    LET names == {n \in ServerNames : connections[n] # NoConn}
        o == DisconnectEach([map |-> connections, objects |-> conns,
                             called |-> {}], names, teardowns)
    IN  /\ \A n \in ServerNames \ names : teardowns[n] = "clean"
        /\ connections' = o.map
        /\ conns' = o.objects
        /\ last' = [op |-> "disconnect_all", teardowns |-> teardowns,
                    before |-> connections, objectsBefore |-> conns,
                    called |-> o.called]
        /\ UNCHANGED <<pc, tools, executors, mcp_tools, mcp_resources, reply, host>>

\* A server may answer a tool call with a result that carries isError = true
\* ("is_error").  The request itself is answered normally, and only a tool
\* result has the flag.
RequestAnswer(remote) == IF remote = "is_error" THEN "200" ELSE remote

\* connection.call_tool(tool_name, arguments): a flagged result is returned
\* like any other, as response.json() (Http), as the result object (Stdio) or
\* as the dict {"content": ..., "isError": ...} (Sse).
CallTool(conn, remote) ==
    LET o == RemoteAction(conn, RequestAnswer(remote))
    IN  IF remote = "is_error" /\ o.value = "result"
        THEN [o EXCEPT !.value = "error_result"]
        ELSE o

\* The lookup self.connections[server_name] without the membership test.
MCPClientListUnguarded(server_name, remote) ==
    IF connections[server_name] = NoConn
    THEN Answer("KeyError", "none", FALSE)
    ELSE ListCatalog(conns[connections[server_name]], RequestAnswer(remote))

\* MCPClient.list_tools / list_resources: [] for a name that is not in the map.
MCPClient_list(server_name, remote) ==
    IF connections[server_name] = NoConn
    THEN Answer("none", "empty", FALSE)
    ELSE ListCatalog(conns[connections[server_name]], RequestAnswer(remote))

\* MCPClient.call_tool(server_name, tool_name, arguments): ValueError for a
\* name that is not in the map, otherwise the connection's call_tool with the
\* same tool name and arguments.  `calls` lists the calls made on connection
\* objects.
MCPClient_call_tool(server_name, tool_name, arguments, remote) ==
    IF connections[server_name] = NoConn
    THEN [raised |-> "ValueError", value |-> "none", calls |-> <<>>]
    ELSE LET c == connections[server_name]
             o == CallTool(conns[c], remote)
         IN  [raised |-> o.raised, value |-> o.value,
              calls |-> <<[conn |-> c, op |-> "call_tool", name |-> tool_name,
                           arguments |-> arguments]>>]

\* MCPClient.read_resource(server_name, uri)
MCPClient_read_resource(server_name, uri, remote) ==
    IF connections[server_name] = NoConn
    THEN [raised |-> "ValueError", value |-> "none", calls |-> <<>>]
    ELSE LET c == connections[server_name]
             o == RemoteAction(conns[c], RequestAnswer(remote))
         IN  [raised |-> o.raised, value |-> o.value,
              calls |-> <<[conn |-> c, op |-> "read_resource", name |-> uri,
                           arguments |-> {}]>>]

\* MCPClient.list_tools(server_name) and list_resources(server_name), called
\* by a user of the manager.
client_list(server_name, op, remote) ==
    /\ connections[server_name] # NoConn =>
          remote \in Remotes(conns[connections[server_name]].kind)
    /\ connections[server_name] = NoConn => remote = "200"
    /\ LET o == MCPClient_list(server_name, remote)
       IN  last' = [op |-> op, server |-> server_name, remote |-> remote,
                    present |-> connections[server_name] # NoConn,
                    raised |-> o.raised, value |-> o.value,
                    contacted |-> o.contacted,
                    before |-> connections, objectsBefore |-> conns]
    /\ UNCHANGED <<pc, tools, executors, conns, connections, mcp_tools, mcp_resources, reply, host>>

\* MCPClient.call_tool(server_name, tool_name, arguments) and
\* read_resource(server_name, uri), called by a user of the manager.
client_action(server_name, op, remote) ==
    /\ connections[server_name] # NoConn =>
          remote \in Remotes(conns[connections[server_name]].kind)
    /\ connections[server_name] = NoConn => remote = "200"
    /\ LET o == IF op = "client_call_tool"
                THEN MCPClient_call_tool(server_name, "x", {}, remote)
                ELSE MCPClient_read_resource(server_name, "u", remote)
       IN  last' = [op |-> op, server |-> server_name, remote |-> remote,
                    present |-> connections[server_name] # NoConn,
                    raised |-> o.raised, value |-> o.value,
                    calls |-> o.calls,
                    before |-> connections, objectsBefore |-> conns]
    /\ UNCHANGED <<pc, tools, executors, conns, connections, mcp_tools, mcp_resources, reply, host>>

(***************************************************************************)
(* Discovery bridge: tools/mcp_tools.py                                    *)
(***************************************************************************)

\* What a server answers to a request: "200" a normal result, "500" a failure.
Replies == {"200", "500"}

\* The entries of a server's tool catalog: a tool with two parameters, one of
\* them required, and an entry without a name.
ToolDefs ==
    {[name |-> "x", properties |-> {"p", "q"}, required |-> {"p"}],
     [name |-> "", properties |-> {}, required |-> {}]}

\* The catalogs a server announces: empty, or with at least one named tool.
Catalogs == {c \in SUBSET ToolDefs : c = {} \/ \E t \in c : t.name # ""}

\* The largest number of resources a server reports.
MaxResources == 2

\* A server's resource list, by the resources' positions.
ResourceLists == {1..n : n \in 0..MaxResources}

UniqueToolNameUnprefixed(server_name, tool_name) ==
    server_name \o "_" \o tool_name

\* f"mcp_{server_name}_{tool_name}"
unique_tool_name(server_name, tool_name) ==
    "mcp_" \o server_name \o "_" \o tool_name

\* f"mcp_{server_name}_read_resource" and f"mcp_{server_name}_list_resources"
read_resource_tool_name(server_name) == "mcp_" \o server_name \o "_read_resource"
list_resources_tool_name(server_name) == "mcp_" \o server_name \o "_list_resources"

\* Every name the bridge can register with these servers and catalogs.
BridgeNames ==
    {unique_tool_name(n, t.name) : n \in ServerNames, t \in ToolDefs \ {t \in ToolDefs : t.name = ""}}
    \cup {read_resource_tool_name(n) : n \in ServerNames}
    \cup {list_resources_tool_name(n) : n \in ServerNames}

\* The registry names in a server's namespace.
NamesOf(server_name) ==
    {unique_tool_name(server_name, t.name) : t \in {d \in ToolDefs : d.name # ""}}
    \cup {read_resource_tool_name(server_name), list_resources_tool_name(server_name)}

\* A key that is not in mcp_tools / mcp_resources.
NoInfo == [present |-> FALSE]
NoResources == [present |-> FALSE, resources |-> {}]

\* The closures the bridge hands to register_tool, identified by the function
\* and the value it closes over.
create_mcp_tool_executor(unique) == "mcp_tool_executor:" \o unique
create_resource_executor(server_name) == "resource_executor:" \o server_name
create_resource_list_executor(server_name) == "resource_list_executor:" \o server_name

\* ---- _serialize_mcp_response -------------------------------------------
\* The longest list of content parts, or of items, in a response.
MaxParts == 2

\* A content part, or an item of a list.  "model_text": it has model_dump()
\* and the dump has type "text" and a text; "model_other": it has
\* model_dump(), the dump is of another type; "attr_text": no model_dump(),
\* an attribute text; "other": neither.
PartKinds == {"model_text", "model_other", "attr_text", "other"}
Parts == [kind : PartKinds, text : {"s"}]
PartLists == UNION {[1..n -> Parts] : n \in 0..MaxParts}

\* A value handed to _serialize_mcp_response, by what the function asks of
\* it: `model_dump` is hasattr(result, 'model_dump'), `holder` is
\* hasattr(result, 'content') and hasattr(result, 'isError'), `content_is_list`
\* is isinstance(result.content, list), `typed` is hasattr(result, 'type') and
\* hasattr(result, 'text'), `pytype` tells isinstance(result, dict) and
\* isinstance(result, list); `parts` are the content parts of a holder or the
\* items of a list; `raises` tells that model_dump(), json.dumps() or join()
\* raises on this value; `text` stands for the value's own data.
Responses ==
    [model_dump : BOOLEAN, holder : BOOLEAN, content_is_list : BOOLEAN,
     typed : BOOLEAN, pytype : {"dict", "list", "other"}, parts : PartLists,
     raises : BOOLEAN, text : {"r"}]

\* response.json() of the Http variant and the dict the Sse variant builds:
\* a plain dict.
JsonObject(text) ==
    [model_dump |-> FALSE, holder |-> FALSE, content_is_list |-> FALSE,
     typed |-> FALSE, pytype |-> "dict", parts |-> <<>>, raises |-> FALSE,
     text |-> text]

\* sep.join(texts)
RECURSIVE Join(_, _)
Join(texts, sep) ==
    IF texts = <<>> THEN ""
    ELSE IF Len(texts) = 1 THEN texts[1]
    ELSE texts[1] \o sep \o Join(Tail(texts), sep)

\* json.dumps(result.model_dump(), indent=2, default=str)
FieldsText(result) == "json:fields:" \o result.text

\* One content block of a holder: the text of a text block, the JSON of
\* another model's dump, the text attribute, or str(content_block).
RenderPart(part) ==
    CASE part.kind = "model_text" -> part.text
      [] part.kind = "model_other" -> "json:fields:" \o part.text
      [] part.kind = "attr_text" -> part.text
      [] OTHER -> "str:" \o part.text

\* '\n'.join(content_parts) over the content list
JoinedText(result) ==
    Join([i \in 1..Len(result.parts) |-> RenderPart(result.parts[i])], "\n")

\* str(result.content) of a holder whose content is not a list
ContentText(result) == "str:content:" \o result.text

\* result.text
TextAttribute(result) == "text:" \o result.text

\* One item of a list: model_dump(), {'text': item.text} or str(item)
RenderItem(part) ==
    CASE part.kind \in {"model_text", "model_other"} -> "fields:" \o part.text
      [] part.kind = "attr_text" -> "{text:" \o part.text \o "}"
      [] OTHER -> "str:" \o part.text

\* json.dumps(result, indent=2, default=str) of a dict, json.dumps of the
\* converted items of a list
EncodedText(result) ==
    IF result.pytype = "dict" THEN "json:" \o result.text
    ELSE "json:[" \o
         Join([i \in 1..Len(result.parts) |-> RenderItem(result.parts[i])], ",")
         \o "]"

\* str(result)
StringText(result) == "str:" \o result.text

\* The try block with the dict and list tests ahead of the attribute tests.
SerializeBodyTypeFirst(result) ==
    CASE result.pytype \in {"dict", "list"} ->
           [raised |-> result.raises, text |-> EncodedText(result)]
      [] result.model_dump ->
           [raised |-> result.raises, text |-> FieldsText(result)]
      [] result.holder /\ result.content_is_list ->
           [raised |-> result.raises, text |-> JoinedText(result)]
      [] result.holder ->
           [raised |-> FALSE, text |-> ContentText(result)]
      [] result.typed ->
           [raised |-> FALSE, text |-> TextAttribute(result)]
      [] OTHER ->
           [raised |-> FALSE, text |-> StringText(result)]

\* The try block of _serialize_mcp_response: the tests in the order of the
\* code, the first that applies decides.
SerializeBody(result) ==
    IF result.model_dump
    THEN [raised |-> result.raises, text |-> FieldsText(result)]
    ELSE IF result.holder
    THEN IF result.content_is_list
         THEN [raised |-> result.raises, text |-> JoinedText(result)]
         ELSE [raised |-> FALSE, text |-> ContentText(result)]
    ELSE IF result.typed
    THEN [raised |-> FALSE, text |-> TextAttribute(result)]
    ELSE IF result.pytype \in {"dict", "list"}
    THEN [raised |-> result.raises, text |-> EncodedText(result)]
    ELSE [raised |-> FALSE, text |-> StringText(result)]

\* try: ... except Exception: return str(result)
SerializeOutcome(result) ==
    LET b == SerializeBody(result)
    IN  IF b.raised THEN [raised |-> FALSE, text |-> StringText(result)]
        ELSE b

\* MCPToolWrapper._serialize_mcp_response: the text it returns.
serialize_mcp_response(result) == SerializeOutcome(result).text

\* _serialize_mcp_response applied to the value a connection has returned.
serialize(result) ==
    /\ last = [op |-> "response", result |-> result]
    /\ last' = [op |-> "serialize", result |-> result,
                raised |-> SerializeOutcome(result).raised,
                text |-> serialize_mcp_response(result)]
    /\ UNCHANGED <<pc, tools, executors, conns, connections, mcp_tools,
                   mcp_resources, reply, host>>

ExceptToResultNoError(b) ==
    IF b.raised
    THEN [raised |-> FALSE, msg |-> "",
          result |-> ToolResult(FALSE, "", NoError), calls |-> b.calls]
    ELSE b

\* except Exception as e: return ToolResult(success=False, content="", error=str(e))
ExceptToResult(b) ==
    IF b.raised
    THEN [raised |-> FALSE, msg |-> "",
          result |-> ToolResult(FALSE, "", [kind |-> "exception", detail |-> {b.msg}]),
          calls |-> b.calls]
    ELSE b

\* The try block of the executor made by _create_mcp_tool_executor.
McpToolExecutorNamespaced(unique, kwargs) ==
    IF ~mcp_tools[unique].present
    THEN [raised |-> TRUE, msg |-> "KeyError",
          result |-> ToolResult(FALSE, "", NoError), calls |-> <<>>]
    ELSE LET tool_info == mcp_tools[unique]
             o == MCPClient_call_tool(tool_info.server, unique, kwargs, reply)
         IN  IF o.raised # "none"
             THEN [raised |-> TRUE, msg |-> o.raised,
                   result |-> ToolResult(FALSE, "", NoError), calls |-> o.calls]
             ELSE [raised |-> FALSE, msg |-> "",
                   result |-> ToolResult(TRUE,
                                 serialize_mcp_response(JsonObject(o.value)),
                                 NoError),
                   calls |-> o.calls]

McpToolExecutorBody(unique, kwargs) ==
    IF ~mcp_tools[unique].present
    THEN [raised |-> TRUE, msg |-> "KeyError",
          result |-> ToolResult(FALSE, "", NoError), calls |-> <<>>]
    ELSE LET tool_info == mcp_tools[unique]
             o == MCPClient_call_tool(tool_info.server, tool_info.original_name,
                                      kwargs, reply)
         IN  IF o.raised # "none"
             THEN [raised |-> TRUE, msg |-> o.raised,
                   result |-> ToolResult(FALSE, "", NoError), calls |-> o.calls]
             ELSE [raised |-> FALSE, msg |-> "",
                   result |-> ToolResult(TRUE,
                                 serialize_mcp_response(JsonObject(o.value)),
                                 NoError),
                   calls |-> o.calls]

McpToolExecutorUncaught(unique, kwargs) ==
    McpToolExecutorBody(unique, kwargs)

\* executor(**kwargs) of _create_mcp_tool_executor
mcp_tool_executor(unique, kwargs) ==
    ExceptToResult(McpToolExecutorBody(unique, kwargs))

\* executor(uri) of _create_resource_executor
resource_executor(server_name, uri) ==
    LET o == MCPClient_read_resource(server_name, uri, reply)
    IN  ExceptToResult(
           IF o.raised # "none"
           THEN [raised |-> TRUE, msg |-> o.raised,
                 result |-> ToolResult(FALSE, "", NoError), calls |-> o.calls]
           ELSE [raised |-> FALSE, msg |-> "",
                 result |-> ToolResult(TRUE, o.value, NoError), calls |-> o.calls])

\* executor() of _create_resource_list_executor: formats the stored list.
resource_list_executor(server_name) ==
    LET resources == mcp_resources[server_name].resources
    IN  IF resources = {}
        THEN [raised |-> FALSE, msg |-> "",
              result |-> ToolResult(TRUE, "No resources available from " \o server_name,
                                    NoError),
              calls |-> <<>>]
        ELSE [raised |-> FALSE, msg |-> "",
              result |-> ToolResult(TRUE,
                            "Available resources from " \o server_name \o ": "
                               \o ToString(Cardinality(resources)),
                            NoError),
              calls |-> <<>>]

(***************************************************************************)
(* Builtin tools: tools/builtin.py                                         *)
(***************************************************************************)

BuiltinNames ==
    {"execute_command", "read_file", "write_to_file", "replace_in_file",
     "list_files", "search_files"}

\* The parameters each builtin tool is registered with, by the names marked
\* "required": True and those marked "required": False.
BuiltinRequired(name) ==
    CASE name = "execute_command" -> {"command"}
      [] name = "read_file" -> {"path"}
      [] name = "write_to_file" -> {"path", "content"}
      [] name = "replace_in_file" -> {"path", "old_content", "new_content"}
      [] name = "list_files" -> {"path"}
      [] name = "search_files" -> {"pattern", "path"}

BuiltinOptional(name) ==
    CASE name = "execute_command" -> {"timeout"}
      [] name = "read_file" -> {}
      [] name = "write_to_file" -> {"append"}
      [] name = "replace_in_file" -> {}
      [] name = "list_files" -> {"recursive", "pattern"}
      [] name = "search_files" -> {"recursive", "file_pattern", "search_content"}

BuiltinParameters(name) ==
    [n \in BuiltinRequired(name) \cup BuiltinOptional(name) |->
        IF n \in BuiltinRequired(name) THEN "true" ELSE "false"]

\* The builtin executors that test their path (or pattern) and return a
\* failure of their own before doing the work.
BuiltinChecks == {"read_file", "replace_in_file", "list_files", "search_files"}

\* How the file system and the shell respond: the operation works, the path
\* is not there (or is of the wrong kind, or the pattern is invalid), or the
\* operation raises (permission, timeout).
HostStates == {"ok", "missing", "error"}

\* The bound methods register_all hands to register_tool.
create_builtin_executor(name) == "builtin:" \o name

BuiltinExecutors == {create_builtin_executor(n) : n \in BuiltinNames}

\* BuiltinTools._execute_command, _read_file, _write_to_file,
\* _replace_in_file, _list_files, _search_files: the whole body is inside
\* try/except Exception.
builtin_executor(name) ==
    CASE host = "error" ->
           [raised |-> FALSE, msg |-> "",
            result |-> ToolResult(FALSE, "", [kind |-> "exception", detail |-> {"OSError"}]),
            calls |-> <<>>]
      [] host = "missing" /\ name \in BuiltinChecks ->
           [raised |-> FALSE, msg |-> "",
            result |-> ToolResult(FALSE, "", [kind |-> "refused", detail |-> {name}]),
            calls |-> <<>>]
      [] OTHER ->
           [raised |-> FALSE, msg |-> "",
            result |-> ToolResult(TRUE, "done:" \o name, NoError),
            calls |-> <<>>]

\* The keys of ToolManager.tools and ToolManager.executors.
RegistryNames == ToolNames \cup BuiltinNames \cup BridgeNames

(***************************************************************************)
(* Executing a registered tool: ToolManager.execute_tool                   *)
(***************************************************************************)

\* An executor called with keyword arguments its signature does not have.
TypeErrorRaised ==
    [raised |-> TRUE, msg |-> "unexpected keyword argument",
     result |-> ToolResult(FALSE, "", NoError), calls |-> <<>>]

\* await self.executors[name](**arguments).  `calls` lists the requests the
\* executor handed to a connection object.
InvokeExecutor(ex, arguments) ==
    CASE ex = "ex_ok" ->
           [raised |-> FALSE, msg |-> "", result |-> ToolResult(TRUE, "out", NoError),
            calls |-> <<>>]
      [] ex = "ex_raise" ->
           [raised |-> TRUE, msg |-> "boom", result |-> ToolResult(FALSE, "", NoError),
            calls |-> <<>>]
      [] ex = "ex_strict" ->
           IF arguments \subseteq {"p"}
           THEN [raised |-> FALSE, msg |-> "", result |-> ToolResult(TRUE, "out", NoError),
                 calls |-> <<>>]
           ELSE TypeErrorRaised
      [] ex \in BuiltinExecutors ->
           LET name == CHOOSE n \in BuiltinNames : ex = create_builtin_executor(n)
           IN  IF /\ BuiltinRequired(name) \subseteq arguments
                  /\ arguments \subseteq BuiltinRequired(name) \cup BuiltinOptional(name)
               THEN builtin_executor(name)
               ELSE TypeErrorRaised
      [] \E u \in BridgeNames : ex = create_mcp_tool_executor(u) ->
           mcp_tool_executor(
              CHOOSE u \in BridgeNames : ex = create_mcp_tool_executor(u), arguments)
      [] \E n \in ServerNames : ex = create_resource_executor(n) ->
           IF arguments = {"uri"}
           THEN resource_executor(
                   CHOOSE n \in ServerNames : ex = create_resource_executor(n), "uri")
           ELSE TypeErrorRaised
      [] \E n \in ServerNames : ex = create_resource_list_executor(n) ->
           IF arguments = {}
           THEN resource_list_executor(
                   CHOOSE n \in ServerNames : ex = create_resource_list_executor(n))
           ELSE TypeErrorRaised

\* missing_params = [param for param in tool_def.required if param not in arguments]
MissingOneOnly(tool_def, arguments) ==
    LET m == {param \in tool_def.required : param \notin arguments}
    IN  IF m = {} THEN {} ELSE {CHOOSE param \in m : TRUE}

MissingParams(tool_def, arguments) ==
    {param \in tool_def.required : param \notin arguments}

\* The body of execute_tool's try block: validate, then call the executor.
\* `raised` tells that an exception left the block.
TryBody(name, arguments) ==
    LET missing_params == MissingParams(tools[name], arguments)
    IN  IF missing_params # {}
        THEN [raised |-> FALSE, msg |-> "",
              result |-> ToolResult(FALSE, "",
                            [kind |-> "missing", detail |-> missing_params]),
              invoked |-> <<>>, calls |-> <<>>]
        ELSE LET o == InvokeExecutor(executors[name], arguments)
             IN  [raised |-> o.raised, msg |-> o.msg, result |-> o.result,
                  invoked |-> <<executors[name]>>, calls |-> o.calls]

\* The try/except of execute_tool: an exception becomes a failed ToolResult.
GuardedNoExcept(name, arguments) ==
    TryBody(name, arguments)

Guarded(name, arguments) ==
    LET b == TryBody(name, arguments)
    IN  IF b.raised
        THEN [raised |-> FALSE, msg |-> "",
              result |-> ToolResult(FALSE, "",
                            [kind |-> "exception", detail |-> {b.msg}]),
              invoked |-> b.invoked, calls |-> b.calls]
        ELSE b

NotFoundResult(name) ==
    [raised |-> FALSE, msg |-> "",
     result |-> ToolResult(FALSE, "", [kind |-> "not_found", detail |-> {name}]),
     invoked |-> <<>>, calls |-> <<>>]

\* What execute_tool(name, arguments) does in the current registry.
ExecuteToolFallback(name, arguments) ==
    IF ~tools[name].registered
    THEN IF \E n \in ToolNames : tools[n].registered
         THEN Guarded(CHOOSE n \in ToolNames : tools[n].registered, arguments)
         ELSE NotFoundResult(name)
    ELSE Guarded(name, arguments)

ExecuteToolOutcome(name, arguments) ==
    IF ~tools[name].registered
    THEN NotFoundResult(name)
    ELSE IF executors[name] = NoExecutor
    THEN [raised |-> FALSE, msg |-> "",
          result |-> ToolResult(FALSE, "", [kind |-> "no_executor", detail |-> {name}]),
          invoked |-> <<>>, calls |-> <<>>]
    ELSE Guarded(name, arguments)

\* One entry of get_tool_definitions(): the function's name, the names of its
\* properties and its required list.  tool_def.name is the key the definition
\* is stored under.
DefinitionEntry(name) ==
    [name |-> name,
     properties |-> DOMAIN tools[name].parameters,
     required |-> tools[name].required]

\* for tool_def in self.tools.values(): definitions.append(...)
RECURSIVE DefinitionsOf(_)
DefinitionsOf(names) ==
    IF names = {}
    THEN <<>>
    ELSE LET name == CHOOSE n \in names : TRUE
         IN  <<DefinitionEntry(name)>> \o DefinitionsOf(names \ {name})

\* ToolManager.get_tool_definitions
get_tool_definitions ==
    DefinitionsOf({n \in DOMAIN tools : tools[n].registered})

RegisterKeepsExecutor(name, parameters, executor) ==
    /\ tools' = [tools EXCEPT ![name] = ToolDefinition(parameters)]
    /\ executors' = [executors EXCEPT ![name] =
                        IF tools[name].registered THEN executors[name] ELSE executor]
    /\ last' = [op |-> "register_tool", name |-> name, parameters |-> parameters,
                executor |-> executor, replaced |-> tools[name].registered,
                oldExecutor |-> executors[name]]
    /\ UNCHANGED <<pc, conns, connections, mcp_tools, mcp_resources, reply, host>>

\* ToolManager.register_tool: self.tools[name] = tool_def;
\* self.executors[name] = executor
register_tool(name, parameters, executor) ==
    /\ tools' = [tools EXCEPT ![name] = ToolDefinition(parameters)]
    /\ executors' = [executors EXCEPT ![name] = executor]
    /\ last' = [op |-> "register_tool", name |-> name, parameters |-> parameters,
                executor |-> executor, replaced |-> tools[name].registered,
                oldExecutor |-> executors[name]]
    /\ UNCHANGED <<pc, conns, connections, mcp_tools, mcp_resources, reply, host>>

execute_tool(name, arguments) ==
    LET o == ExecuteToolOutcome(name, arguments)
    IN  /\ last' = [op |-> "execute_tool", name |-> name, arguments |-> arguments,
                    registered |-> tools[name].registered,
                    marked |-> IF tools[name].registered
                               THEN {n \in DOMAIN tools[name].parameters :
                                        tools[name].parameters[n]}
                               ELSE {},
                    executor |-> executors[name],
                    raised |-> o.raised, result |-> o.result,
                    invoked |-> o.invoked, calls |-> o.calls,
                    toolsBefore |-> tools, executorsBefore |-> executors]
        /\ UNCHANGED <<pc, tools, executors, conns, connections, mcp_tools, mcp_resources, reply, host>>

(***************************************************************************)
(* Discovery and refresh: tools/mcp_tools.py                               *)
(***************************************************************************)

\* The registry and the bridge state as one value, for the steps of an
\* operation that registers several tools.
Current ==
    [tools |-> tools, executors |-> executors,
     mcp_tools |-> mcp_tools, mcp_resources |-> mcp_resources]

\* tool_manager.register_tool(name, description, parameters, executor)
Registered(st, name, parameters, executor) ==
    [st EXCEPT !.tools[name] = ToolDefinition(parameters),
               !.executors[name] = executor]

ConvertParametersAllRequired(tool_def) ==
    [n \in tool_def.properties |-> "true"]

\* The parameters _register_mcp_tool derives from inputSchema:
\* "required": param_name in required
ConvertParameters(tool_def) ==
    [n \in tool_def.properties |->
        IF n \in tool_def.required THEN "true" ELSE "false"]

McpToolInfo(server_name, tool_def) ==
    [present |-> TRUE, server |-> server_name, original_name |-> tool_def.name,
     definition |-> tool_def]

\* MCPToolWrapper._register_mcp_tool: an entry without a name is skipped.
register_mcp_tool(st, server_name, tool_def) ==
    IF tool_def.name = ""
    THEN st
    ELSE LET unique == unique_tool_name(server_name, tool_def.name)
         IN  Registered(
                [st EXCEPT !.mcp_tools[unique] = McpToolInfo(server_name, tool_def)],
                unique, ConvertParameters(tool_def),
                create_mcp_tool_executor(unique))

\* for tool in tools: await self._register_mcp_tool(tool_manager, server_name, tool)
RECURSIVE RegisterAll(_, _, _)
RegisterAll(st, server_name, found) ==
    IF found = {}
    THEN st
    ELSE LET tool_def == CHOOSE t \in found : TRUE
         IN  RegisterAll(register_mcp_tool(st, server_name, tool_def),
                         server_name, found \ {tool_def})

DiscoverResourcesUnconditional(st, server_name, resources) ==
    LET st1 == [st EXCEPT !.mcp_resources[server_name] =
                              [present |-> TRUE, resources |-> resources]]
    IN  Registered(
           Registered(st1, read_resource_tool_name(server_name),
                      [n \in {"uri"} |-> "true"],
                      create_resource_executor(server_name)),
           list_resources_tool_name(server_name),
           [n \in {} |-> "true"],
           create_resource_list_executor(server_name))

\* MCPToolWrapper._discover_and_register_resources
discover_and_register_resources(st, server_name, resources) ==
    LET st1 == [st EXCEPT !.mcp_resources[server_name] =
                              [present |-> TRUE, resources |-> resources]]
    IN  IF resources # {}
        THEN Registered(
                Registered(st1, read_resource_tool_name(server_name),
                           [n \in {"uri"} |-> "true"],
                           create_resource_executor(server_name)),
                list_resources_tool_name(server_name),
                [n \in {} |-> "true"],
                create_resource_list_executor(server_name))
        ELSE st1

\* The body of discover_and_register_tools: what the manager lists for the
\* server when it announces `catalog` and `resources`, registered.
Discovered(st, server_name, catalog, resources) ==
    LET found == IF MCPClient_list(server_name, reply).value = "catalog"
                 THEN catalog ELSE {}
        listed == IF MCPClient_list(server_name, reply).value = "catalog"
                  THEN resources ELSE {}
    IN  discover_and_register_resources(
           RegisterAll(st, server_name, found), server_name, listed)

\* The registry names that hold one of the server's resource-access tools.
ResourceToolsOf(regs, server_name) ==
    {n \in RegistryNames :
        regs[n] \in {create_resource_executor(server_name),
                     create_resource_list_executor(server_name)}}

discover_and_register_tools(server_name, catalog, resources) ==
    LET st == Discovered(Current, server_name, catalog, resources)
    IN  /\ tools' = st.tools
        /\ executors' = st.executors
        /\ mcp_tools' = st.mcp_tools
        /\ mcp_resources' = st.mcp_resources
        /\ last' = [op |-> "discover_and_register_tools", server |-> server_name,
                    catalog |-> catalog, resources |-> resources,
                    listed |-> MCPClient_list(server_name, reply).value,
                    raised |-> "none",
                    resourceToolsBefore |-> ResourceToolsOf(executors, server_name)]
        /\ UNCHANGED <<pc, conns, connections, reply, host>>

\* tools_to_remove of refresh_server_tools
ToolsOfServer(server_name) ==
    {n \in BridgeNames : mcp_tools[n].present /\ mcp_tools[n].server = server_name}

\* MCPToolWrapper.refresh_server_tools.  ToolManager has no unregister_tool:
\* the first removal raises AttributeError, which leaves the method.
refresh_server_tools(server_name, catalog, resources) ==
    \/ /\ ToolsOfServer(server_name) # {}
       /\ last' = [op |-> "refresh_server_tools", server |-> server_name,
                   catalog |-> catalog, resources |-> resources,
                   listed |-> MCPClient_list(server_name, reply).value,
                   raised |-> "AttributeError"]
       /\ UNCHANGED <<pc, tools, executors, conns, connections, mcp_tools,
                      mcp_resources, reply, host>>
    \/ /\ ToolsOfServer(server_name) = {}
       /\ LET st == Discovered(
                       [Current EXCEPT !.mcp_resources[server_name] = NoResources],
                       server_name, catalog, resources)
          IN  /\ tools' = st.tools
              /\ executors' = st.executors
              /\ mcp_tools' = st.mcp_tools
              /\ mcp_resources' = st.mcp_resources
              /\ last' = [op |-> "refresh_server_tools", server |-> server_name,
                          catalog |-> catalog, resources |-> resources,
                          listed |-> MCPClient_list(server_name, reply).value,
                          raised |-> "none"]
       /\ UNCHANGED <<pc, conns, connections, reply, host>>

\* for each builtin tool: tool_manager.register_tool(name, description,
\* parameters, executor)
RECURSIVE RegisterBuiltins(_, _)
RegisterBuiltins(st, names) ==
    IF names = {}
    THEN st
    ELSE LET name == CHOOSE n \in names : TRUE
         IN  RegisterBuiltins(
                Registered(st, name, BuiltinParameters(name),
                           create_builtin_executor(name)),
                names \ {name})

\* BuiltinTools.register_all
register_all ==
    LET st == RegisterBuiltins(Current, BuiltinNames)
    IN  /\ tools' = st.tools
        /\ executors' = st.executors
        /\ last' = [op |-> "register_all"]
        /\ UNCHANGED <<pc, conns, connections, mcp_tools, mcp_resources, reply, host>>

\* The file system or the shell starts to respond differently.
host_change(h) ==
    /\ h # host
    /\ host' = h
    /\ last' = [op |-> "host_change", host |-> h]
    /\ UNCHANGED <<pc, tools, executors, conns, connections, mcp_tools,
                   mcp_resources, reply>>

\* The remote end starts or stops answering normally.
server_reply(r) ==
    /\ r # reply
    /\ reply' = r
    /\ last' = [op |-> "server_reply", reply |-> r]
    /\ UNCHANGED <<pc, tools, executors, conns, connections, mcp_tools, mcp_resources, host>>

(***************************************************************************)
(* Specifications                                                          *)
(***************************************************************************)

Init ==
    /\ tools = [n \in RegistryNames |-> NoTool]
    /\ executors = [n \in RegistryNames |-> NoExecutor]
    /\ conns = [c \in ConnIds |-> NoObject]
    /\ connections = [n \in ServerNames |-> NoConn]
    /\ mcp_tools = [n \in BridgeNames |-> NoInfo]
    /\ mcp_resources = [n \in ServerNames |-> NoResources]
    /\ reply = "200"
    /\ host = "ok"
    /\ pc = Idle
    /\ last = NoOp

\* The connection manager and the background tasks of its Sse connections.
Next ==
    \/ \E name \in ServerNames, config_type \in ConfigTypes :
          connect_server(name, config_type)
    \/ \E name \in ServerNames, teardown \in Teardowns :
          disconnect_server(name, teardown)
    \/ \E c \in ConnIds : sse_handshake_done(c)
    \/ \E c \in ConnIds : sse_session_error(c)

Spec == Init /\ [][Next]_vars

\* The configurations of the servers a user of the manager connects.
ClientConfigTypes == {"http", "sse", "websocket"}

\* A user of the connection manager: connecting, listing, calling, reading
\* and disconnecting by server name.
NextClient ==
    \/ \E name \in ServerNames, config_type \in ClientConfigTypes :
          connect_server(name, config_type)
    \/ \E name \in ServerNames, teardown \in Teardowns :
          disconnect_server(name, teardown)
    \/ \E teardowns \in [ServerNames -> Teardowns] : disconnect_all(teardowns)
    \/ \E name \in ServerNames,
          op \in {"client_list_tools", "client_list_resources"},
          remote \in {"200", "404", "request_error"} :
          client_list(name, op, remote)
    \/ \E name \in ServerNames,
          op \in {"client_call_tool", "client_read_resource"},
          remote \in {"200", "404", "request_error"} :
          client_action(name, op, remote)
    \/ \E c \in ConnIds : sse_session_error(c)

SpecClient == Init /\ [][NextClient]_vars

\* The response normalization applied to a value of any shape: the value is
\* there from the start, the one step normalizes it.
InitSerialize ==
    /\ tools = [n \in RegistryNames |-> NoTool]
    /\ executors = [n \in RegistryNames |-> NoExecutor]
    /\ conns = [c \in ConnIds |-> NoObject]
    /\ connections = [n \in ServerNames |-> NoConn]
    /\ mcp_tools = [n \in BridgeNames |-> NoInfo]
    /\ mcp_resources = [n \in ServerNames |-> NoResources]
    /\ reply = "200"
    /\ host = "ok"
    /\ pc = Idle
    /\ last \in {[op |-> "response", result |-> r] : r \in Responses}

NextSerialize == \E result \in Responses : serialize(result)

SpecSerialize == InitSerialize /\ [][NextSerialize]_vars

\* A caller that constructs connection objects and uses them itself.
NextConnection ==
    \/ \E kind \in Kinds : new_connection(kind)
    \/ \E c \in ConnIds, outcome \in {"client_error", "200", "401", "500",
            "request_error", "no_mcp", "spawn_fail", "init_fail", "ok",
            "ready", "failed", "unauthorized", "slow"} : conn_connect(c, outcome)
    \/ \E c \in ConnIds, teardown \in Teardowns : conn_disconnect(c, teardown)
    \/ \E c \in ConnIds, op \in {"list_tools", "list_resources"},
          remote \in {"200", "401", "404", "500", "request_error"} :
          conn_list(c, op, remote)
    \/ \E c \in ConnIds, op \in {"call_tool", "read_resource"},
          remote \in {"200", "401", "404", "500", "request_error"} :
          conn_action(c, op, remote)
    \/ \E c \in ConnIds : sse_handshake_done(c)
    \/ \E c \in ConnIds : sse_session_error(c)

SpecConnection == Init /\ [][NextConnection]_vars

\* The tool registry.
NextRegistry ==
    \/ \E name \in ToolNames, parameters \in ParamDicts, executor \in Executors :
          register_tool(name, parameters, executor)
    \/ \E name \in ToolNames, arguments \in ArgDicts :
          execute_tool(name, arguments)

SpecRegistry == Init /\ [][NextRegistry]_vars

\* The configurations the servers are connected with: Http, or an entry whose
\* transport kind is not one of the three.
BridgeConfigTypes == {"http", "websocket"}

\* Server "a" is a server whose catalog changes from one discovery to the
\* next; server "a_b" always announces one tool and one resource.
CatalogsOf(name) ==
    IF name = "a" THEN Catalogs ELSE {{t \in ToolDefs : t.name = "x"}}

ResourcesOf(name) ==
    IF name = "a" THEN ResourceLists ELSE {{1}}

\* The keyword arguments handed to a bridge-registered tool.
BridgeArgs == {{}, {"p"}, {"uri"}}

\* Discovery and refresh on top of the connection manager.  The servers
\* answer every request; a catalog request that fails is one that yields an
\* empty catalog (ListCatalog), which the catalogs above include.
NextBridge ==
    \/ \E name \in ServerNames, config_type \in BridgeConfigTypes :
          connect_server(name, config_type)
    \/ \E name \in ServerNames, teardown \in Teardowns :
          disconnect_server(name, teardown)
    \/ \E name \in ServerNames :
          \E catalog \in CatalogsOf(name), resources \in ResourcesOf(name) :
             discover_and_register_tools(name, catalog, resources)
    \/ \E name \in ServerNames :
          \E catalog \in CatalogsOf(name), resources \in ResourcesOf(name) :
             refresh_server_tools(name, catalog, resources)

SpecBridge == Init /\ [][NextBridge]_vars

\* Calls of the tools the bridge has registered, through the registry, while
\* servers connect, disconnect and start or stop answering.
NextProxy ==
    \/ \E name \in ServerNames, config_type \in BridgeConfigTypes :
          connect_server(name, config_type)
    \/ \E name \in ServerNames, teardown \in Teardowns :
          disconnect_server(name, teardown)
    \/ \E r \in Replies : server_reply(r)
    \/ \E name \in ServerNames :
          \E catalog \in CatalogsOf(name), resources \in ResourcesOf(name) :
             discover_and_register_tools(name, catalog, resources)
    \/ \E name \in BridgeNames, arguments \in BridgeArgs :
          tools[name].registered /\ execute_tool(name, arguments)

SpecProxy == Init /\ [][NextProxy]_vars

\* The arguments a tool is called with: none, or exactly its required ones.
ArgsFor(name) ==
    IF tools[name].registered THEN {{}, tools[name].required} ELSE {{}}

\* The registry with the tools of both origins, as the terminal uses it: the
\* builtin tools and the tools discovered from server "a_b".
NextTools ==
    \/ register_all
    \/ \E h \in HostStates : host_change(h)
    \/ \E r \in Replies : server_reply(r)
    \/ \E config_type \in BridgeConfigTypes : connect_server("a_b", config_type)
    \/ \E teardown \in Teardowns : disconnect_server("a_b", teardown)
    \/ \E catalog \in CatalogsOf("a_b"), resources \in ResourcesOf("a_b") :
          discover_and_register_tools("a_b", catalog, resources)
    \/ \E name \in BuiltinNames \cup NamesOf("a_b") :
          \E arguments \in ArgsFor(name) : execute_tool(name, arguments)

SpecTools == Init /\ [][NextTools]_vars

(***************************************************************************)
(* Properties of the tool registry (checked under SpecRegistry)            *)
(***************************************************************************)

\* C1: execute_tool never raises; when the executor of a registered tool is
\* invoked and raises, the call returns success = false with the error set to
\* the exception's message, and the registered tools and executors are what
\* they were before the call.
C1_ExecutorFailureIsReturned ==
    last.op = "execute_tool" =>
        /\ ~last.raised
        /\ tools = last.toolsBefore
        /\ executors = last.executorsBefore
        /\ (/\ last.registered
            /\ last.marked \subseteq last.arguments
            /\ InvokeExecutor(last.executor, last.arguments).raised)
           => /\ last.result.success = FALSE
              /\ last.result.error =
                    [kind |-> "exception",
                     detail |-> {InvokeExecutor(last.executor, last.arguments).msg}]

\* An executor that raises was invoked, with another tool registered too.
C1_Witness ==
    /\ last.op = "execute_tool"
    /\ last.invoked = <<"ex_raise">>
    /\ last.result.success = FALSE
    /\ \A n \in ToolNames : tools[n].registered

\* C2: with at least one parameter marked required absent from the arguments,
\* execute_tool returns success = false, the error lists exactly the missing
\* required names, and no executor is invoked.
C2_MissingRequiredFailsFast ==
    (/\ last.op = "execute_tool"
     /\ last.registered
     /\ last.marked \ last.arguments # {})
    => /\ ~last.raised
       /\ last.result.success = FALSE
       /\ last.result.error =
             [kind |-> "missing", detail |-> last.marked \ last.arguments]
       /\ last.invoked = <<>>

\* Two required parameters, both missing.
C2_Witness ==
    /\ last.op = "execute_tool"
    /\ last.registered
    /\ last.marked = {"p", "q"}
    /\ last.arguments = {}
    /\ last.result.error.kind = "missing"

\* C3: execute_tool on a name that is not registered returns success = false
\* with a not-found error naming it, and invokes no executor.
C3_UnregisteredNotFound ==
    (last.op = "execute_tool" /\ ~last.registered)
    => /\ ~last.raised
       /\ last.result.success = FALSE
       /\ last.result.error = [kind |-> "not_found", detail |-> {last.name}]
       /\ last.invoked = <<>>

\* An unregistered name is executed while another tool is registered.
C3_Witness ==
    /\ last.op = "execute_tool"
    /\ ~last.registered
    /\ \E n \in ToolNames : tools[n].registered /\ executors[n] = "ex_ok"

(***************************************************************************)
(* Properties of the connection manager (checked under Spec)               *)
(***************************************************************************)

ConnectSucceeded == last.returned /\ last.raised = "none"

\* C4: connect_server stores the connection under the name exactly when
\* connect() succeeded.  On success the name maps to the new connection and is
\* among get_connected_servers; on failure the error reaches the caller and
\* the map is what it was before the call.
C4_StoredIffConnected ==
    last.op = "connect_server" =>
        /\ ConnectSucceeded =>
              /\ connections[last.name] = last.conn
              /\ last.conn # NoConn
              /\ last.name \in get_connected_servers
              /\ \A n \in ServerNames \ {last.name} :
                    connections[n] = last.before[n]
        /\ ~ConnectSucceeded =>
              /\ last.raised # "none"
              /\ connections = last.before

\* connect() failed for a name that already had a connection stored.
C4_Witness ==
    /\ last.op = "connect_server"
    /\ last.raised = "MCPConnectionError"
    /\ last.conn # NoConn
    /\ last.before[last.name] # NoConn

\* C5: an unrecognized transport kind raises ConfigurationError with no
\* connection object constructed, no handshake started and the map unchanged;
\* an absent kind selects the Stdio variant.
C5_UnknownKindRejected ==
    last.op = "connect_server" =>
        /\ last.config_type \notin {"absent", "stdio", "http", "sse"} =>
              /\ last.raised = "MCPConfigurationError"
              /\ last.conn = NoConn
              /\ conns = last.objectsBefore
              /\ connections = last.before
        /\ last.config_type = "absent" =>
              /\ last.raised # "MCPConfigurationError"
              /\ last.conn # NoConn
              /\ last.kind = "stdio"

\* An unknown kind is refused while a server is connected.
C5_Witness ==
    /\ last.op = "connect_server"
    /\ last.config_type = "websocket"
    /\ get_connected_servers # {}

\* C6: after disconnect_server(name) the name is not in the map, whether or
\* not closing the underlying client, session or task went well.
C6_DisconnectRemovesEntry ==
    last.op = "disconnect_server" =>
        /\ last.raised = "none"
        /\ connections[last.name] = NoConn

\* A stored, live connection whose teardown raised was disconnected.
C6_Witness ==
    /\ last.op = "disconnect_server"
    /\ last.present
    /\ last.wasLive
    /\ last.teardown = "error"

\* C8: Http connect() succeeds only if the probe succeeded; when the probe
\* fails connect() raises, the connection is not Connected and connect_server
\* does not store it.
C8_HttpConnectNeedsProbe ==
    (last.op = "connect_server" /\ last.kind = "http") =>
        /\ ConnectSucceeded => last.outcome = "200"
        /\ last.outcome \in {"401", "500", "request_error"} =>
              /\ last.raised # "none"
              /\ connections = last.before
              /\ last.name \notin get_connected_servers

(***************************************************************************)
(* Properties of one connection (checked under SpecConnection)             *)
(***************************************************************************)

\* C7: call_tool and read_resource reach the remote server only while the
\* connection is Connected; in any other state they raise and the remote is
\* not contacted.
C7_ServesOnlyWhileConnected ==
    last.op \in {"call_tool", "read_resource"} =>
        /\ last.contacted => last.wasConnected
        /\ ~last.wasConnected => (last.raised # "none" /\ ~last.contacted)

\* Nothing of the connection is left open or running.
Released(conn) == ~conn.handle /\ ~conn.ctx /\ ~TaskRunning(conn)

\* C9: disconnect() returns without raising from any state, leaves nothing
\* open or running (client, session, process context, background task) and
\* is_connected() false; a second call, whatever its teardown does, changes
\* nothing further.
C9_DisconnectIdempotent ==
    last.op = "disconnect" =>
        /\ last.raised = "none"
        /\ Released(conns[last.conn])
        /\ ~is_connected(conns[last.conn])
        /\ \A teardown \in Teardowns :
              Disconnect(conns[last.conn], teardown) =
                 DisconnectResult(conns[last.conn], "none")

\* disconnect() on an Sse connection whose session task had already ended with
\* an error.
C9_Witness ==
    /\ last.op = "disconnect"
    /\ last.before.kind = "sse"
    /\ last.before.task = "failed"

TypedErrors ==
    {"MCPConnectionError", "MCPAuthenticationError", "MCPTimeoutError",
     "MCPConfigurationError", "MCPNotFoundError"}

\* C11: call_tool or read_resource on a Connected connection whose remote
\* request fails raises an error of the taxonomy (MCPConnectionError for an
\* Http non-200 response) and returns no value, for the Stdio, Http and Sse
\* variants alike.
C11_ActionFailureIsTyped ==
    (/\ last.op \in {"call_tool", "read_resource"}
     /\ last.wasConnected
     /\ last.remote # "200")
    => /\ last.raised \in TypedErrors
       /\ last.value = "none"
       /\ (last.before.kind = "http" /\ last.remote \in {"401", "404", "500"})
             => last.raised = "MCPConnectionError"

(***************************************************************************)
(* Properties of the bridge's executors (checked under SpecProxy)          *)
(***************************************************************************)

ToolExecutors == {create_mcp_tool_executor(u) : u \in BridgeNames}
ReadExecutors == {create_resource_executor(n) : n \in ServerNames}
ListExecutors == {create_resource_list_executor(n) : n \in ServerNames}
BridgeExecutors == ToolExecutors \cup ReadExecutors \cup ListExecutors

\* The keyword arguments an executor's signature takes.
Binds(ex, arguments) ==
    CASE ex \in ReadExecutors -> arguments = {"uri"}
      [] ex \in ListExecutors -> arguments = {}
      [] OTHER -> TRUE

\* The server an executor forwards to: the one recorded for its tool, or the
\* one it closes over.  The list-all-resources executor forwards nothing.
ForwardsTo(ex) ==
    CASE ex \in ToolExecutors ->
           LET unique == CHOOSE u \in BridgeNames : ex = create_mcp_tool_executor(u)
           IN  IF mcp_tools[unique].present THEN {mcp_tools[unique].server} ELSE {}
      [] ex \in ReadExecutors ->
           {CHOOSE n \in ServerNames : ex = create_resource_executor(n)}
      [] OTHER -> {}

\* A request forwarded to the server now would fail: the manager does not know
\* the server (never connected, or disconnected), its connection has no
\* session, or the server answers with an error.
ForwardFails(server_name) ==
    \/ connections[server_name] = NoConn
    \/ ~conns[connections[server_name]].handle
    \/ reply # "200"

\* C12: no executor the bridge registers (tool proxy, read-by-uri,
\* list-all-resources) raises when called; when the call it forwards fails,
\* the server being disconnected or unknown to the manager included, it
\* returns a result with success = false and an error that is not null.
C12_BridgeExecutorsNeverRaise ==
    \A n \in BridgeNames :
        executors[n] \in BridgeExecutors =>
            \A arguments \in BridgeArgs :
                Binds(executors[n], arguments) =>
                    LET o == InvokeExecutor(executors[n], arguments)
                    IN  /\ ~o.raised
                        /\ (\E sv \in ForwardsTo(executors[n]) : ForwardFails(sv))
                              => /\ o.result.success = FALSE
                                 /\ o.result.error # NoError

\* A tool proxy was called after its server had been disconnected.
C12_Witness ==
    /\ last.op = "execute_tool"
    /\ last.invoked # <<>>
    /\ last.executor \in ToolExecutors
    /\ \E sv \in ForwardsTo(last.executor) : connections[sv] = NoConn
    /\ last.result.success = FALSE
    /\ last.result.error = [kind |-> "exception", detail |-> {"ValueError"}]

(***************************************************************************)
(* Properties of discovery and refresh (checked under SpecBridge)          *)
(***************************************************************************)

\* The names a discovery of the server yields when the manager lists `catalog`
\* and `resources` for it.
YieldedNames(server_name, listed, catalog, resources) ==
    IF listed # "catalog"
    THEN {}
    ELSE {unique_tool_name(server_name, t.name) : t \in {d \in catalog : d.name # ""}}
         \cup (IF resources # {}
               THEN {read_resource_tool_name(server_name),
                     list_resources_tool_name(server_name)}
               ELSE {})

\* C13: refresh_server_tools(S) completes, and when it has completed the
\* registry's tools for S (the resource-access tools included) and the bridge's
\* records for S are exactly those the current catalog of S yields: nothing of
\* an earlier discovery of S survives.
C13_RefreshLeavesCurrentCatalog ==
    last.op = "refresh_server_tools" =>
        /\ last.raised = "none"
        /\ {n \in NamesOf(last.server) : tools[n].registered}
              = YieldedNames(last.server, last.listed, last.catalog, last.resources)
        /\ ToolsOfServer(last.server)
              = {unique_tool_name(last.server, t.name) :
                    t \in {d \in last.catalog : d.name # "" /\ last.listed = "catalog"}}

\* C14: every tool the bridge has registered (its registry entry and its
\* bridge-state entry) belongs to a server that is in the manager's connection
\* map; once a server is disconnected none of its bridge entries is left.
C14_BridgeEntriesHaveConnection ==
    /\ \A n \in BridgeNames :
          mcp_tools[n].present => connections[mcp_tools[n].server] # NoConn
    /\ \A name \in ServerNames :
          (\E n \in NamesOf(name) : tools[n].registered)
             => connections[name] # NoConn

\* C15: discovery of server S registers every named tool T of the catalog
\* under exactly the name mcp_S_T, recording S and T for it; and every name
\* that carries a bridge executor reads mcp_<server>_<name>, where <name> is
\* the tool's original name (for the two resource-access tools: the fixed
\* words read_resource and list_resources).
C15_NamespacedNames ==
    /\ (/\ last.op = "discover_and_register_tools"
        /\ last.listed = "catalog")
       => \A t \in {d \in last.catalog : d.name # ""} :
             LET n == "mcp_" \o last.server \o "_" \o t.name
             IN  /\ n \in DOMAIN tools
                 /\ tools[n].registered
                 /\ executors[n] = create_mcp_tool_executor(n)
                 /\ mcp_tools[n].present
                 /\ mcp_tools[n].server = last.server
                 /\ mcp_tools[n].original_name = t.name
    /\ \A n \in DOMAIN executors :
          /\ executors[n] \in ToolExecutors =>
                /\ n \in DOMAIN mcp_tools
                /\ mcp_tools[n].present
                /\ n = "mcp_" \o mcp_tools[n].server \o "_" \o mcp_tools[n].original_name
          /\ executors[n] \in ReadExecutors \cup ListExecutors =>
                \E name \in ServerNames :
                   n \in {"mcp_" \o name \o "_read_resource",
                          "mcp_" \o name \o "_list_resources"}

\* Tool x of server a_b is discovered while server a has its tool x registered.
C15_Witness ==
    /\ last.op = "discover_and_register_tools"
    /\ last.server = "a_b"
    /\ last.listed = "catalog"
    /\ \E t \in last.catalog : t.name = "x"
    /\ tools["mcp_a_b_x"].registered
    /\ tools["mcp_a_x"].registered
    /\ mcp_tools["mcp_a_x"].server = "a"

\* C16: after discover_and_register_tools(S), if S reported no resource, no
\* resource-access tool of S has been added to the registry; if S reported one
\* or more, the registry holds exactly one read-by-uri tool and exactly one
\* list-all-resources tool of S, the same two whatever the number.
C16_TwoResourceToolsOrNone ==
    last.op = "discover_and_register_tools" =>
        LET reported == IF last.listed = "catalog" THEN last.resources ELSE {}
            read == "mcp_" \o last.server \o "_read_resource"
            list == "mcp_" \o last.server \o "_list_resources"
        IN  /\ reported = {} =>
                  ResourceToolsOf(executors, last.server) = last.resourceToolsBefore
            /\ reported # {} =>
                  /\ {n \in DOMAIN executors :
                         executors[n] = create_resource_executor(last.server)} = {read}
                  /\ {n \in DOMAIN executors :
                         executors[n] = create_resource_list_executor(last.server)} = {list}
                  /\ tools[read] = ToolDefinition([n \in {"uri"} |-> "true"])
                  /\ tools[list] = ToolDefinition([n \in {} |-> "true"])

\* A server that had reported one resource reports two.
C16_Witness ==
    /\ last.op = "discover_and_register_tools"
    /\ last.listed = "catalog"
    /\ Cardinality(last.resources) = 2
    /\ last.resourceToolsBefore # {}
    /\ Cardinality(ResourceToolsOf(executors, last.server)) = 2

\* C17: for a connected server S and a tool T discovered from it,
\* execute_tool("mcp_S_T", A) with every required parameter in A makes exactly
\* one call on S's connection, call_tool(T, A) with the original tool name and
\* the arguments as given; when that call returns normally the result has
\* success = true, no error and the text of what the call returned.
C17_ProxyForwardsOnce ==
    \A name \in ServerNames, t \in {d \in ToolDefs : d.name # ""} :
        (/\ last.op = "execute_tool"
         /\ last.name = "mcp_" \o name \o "_" \o t.name
         /\ last.registered
         /\ last.executor \in ToolExecutors
         /\ last.marked \subseteq last.arguments
         /\ connections[name] # NoConn
         /\ is_connected(conns[connections[name]]))
        => /\ last.calls = <<[conn |-> connections[name], op |-> "call_tool",
                              name |-> t.name, arguments |-> last.arguments]>>
           /\ reply = "200" =>
                 /\ last.result.success = TRUE
                 /\ last.result.error = NoError
                 /\ last.result.content = "json:result"
           /\ ~last.raised

\* Tool x of server a is called with its required parameter and the server
\* answers.
C17_Witness ==
    /\ last.op = "execute_tool"
    /\ last.name = "mcp_a_x"
    /\ last.arguments = {"p"}
    /\ Len(last.calls) = 1
    /\ last.result.success = TRUE
    /\ connections["a_b"] # NoConn

(***************************************************************************)
(* Further properties of the tool registry (checked under SpecRegistry)    *)
(***************************************************************************)

\* C18: get_tool_definitions() holds exactly one entry for each registered
\* name and no other entry, and the required list of each entry is exactly the
\* set of the tool's parameters that are marked required: those whose
\* descriptor says so, which are those registered without "required": False.
C18_OneDefinitionPerName ==
    LET definitions == get_tool_definitions
    IN  /\ \A n \in DOMAIN tools :
              Cardinality({i \in 1..Len(definitions) : definitions[i].name = n})
                 = IF tools[n].registered THEN 1 ELSE 0
        /\ \A i \in 1..Len(definitions) :
              LET tool_def == tools[definitions[i].name]
              IN  /\ definitions[i].properties = DOMAIN tool_def.parameters
                  /\ definitions[i].required =
                        {param \in DOMAIN tool_def.parameters :
                            tool_def.parameters[param]}
        /\ last.op = "register_tool" =>
              \E i \in 1..Len(definitions) :
                 /\ definitions[i].name = last.name
                 /\ definitions[i].properties = DOMAIN last.parameters
                 /\ definitions[i].required =
                       {param \in DOMAIN last.parameters :
                           last.parameters[param] # "false"}

\* Two tools are registered; one has a required and an optional parameter.
C18_Witness ==
    /\ last.op = "register_tool"
    /\ Len(get_tool_definitions) = 2
    /\ \E i \in 1..2 :
          /\ get_tool_definitions[i].required = {"p"}
          /\ get_tool_definitions[i].properties = {"p", "q"}

\* C19: register_tool on a name that is already registered replaces the
\* descriptor and the executor without raising: the registry then holds one
\* entry for the name, its descriptor is the one built from the new
\* parameters, and execute_tool on the name invokes the new executor or none,
\* never the old one.
C19_ReRegisterReplaces ==
    (last.op = "register_tool" /\ last.replaced) =>
        /\ tools[last.name] = ToolDefinition(last.parameters)
        /\ executors[last.name] = last.executor
        /\ Cardinality({i \in 1..Len(get_tool_definitions) :
                           get_tool_definitions[i].name = last.name}) = 1
        /\ \A arguments \in ArgDicts :
              LET o == ExecuteToolOutcome(last.name, arguments)
              IN  /\ o.invoked \in {<<>>, <<last.executor>>}
                  /\ tools[last.name].required \subseteq arguments
                        => o.invoked = <<last.executor>>
                  /\ last.oldExecutor # last.executor
                        => o.invoked # <<last.oldExecutor>>

\* A tool whose executor raised is registered again with another executor,
\* while a second tool is registered.
C19_Witness ==
    /\ last.op = "register_tool"
    /\ last.replaced
    /\ last.oldExecutor = "ex_raise"
    /\ last.executor = "ex_ok"
    /\ \A n \in ToolNames : tools[n].registered
    /\ tools[last.name].required = {"p"}
    /\ DOMAIN tools[last.name].parameters = {"p", "q"}

(***************************************************************************)
(* Properties of the results crossing the registry (checked under          *)
(* SpecTools)                                                              *)
(***************************************************************************)

\* C20: every result execute_tool returns, whether it comes from the
\* registry's own failure paths, from a builtin executor or from a bridge
\* executor, has success = true with a null error or success = false with an
\* error that is not null.
C20_SuccessExcludesError ==
    last.op = "execute_tool" =>
        /\ ~last.raised
        /\ last.result.success = TRUE => last.result.error = NoError
        /\ last.result.success = FALSE => last.result.error # NoError

\* A builtin executor refused its path while a bridge tool was registered.
C20_Witness ==
    /\ last.op = "execute_tool"
    /\ last.executor \in BuiltinExecutors
    /\ last.invoked # <<>>
    /\ last.result.success = FALSE
    /\ last.result.error.kind = "refused"
    /\ executors["mcp_a_b_x"] \in ToolExecutors

(***************************************************************************)
(* Error types of the connections and the manager                          *)
(***************************************************************************)

\* The error type the failure cause of an Http request maps to: 404 is
\* NotFound, 401 is AuthenticationError, all else is ConnectionError.
HttpErrorFor(remote) ==
    CASE remote = "404" -> "MCPNotFoundError"
      [] remote = "401" -> "MCPAuthenticationError"
      [] OTHER -> "MCPConnectionError"

\* C24: a failing Http call_tool or read_resource raises the error type of
\* its cause: MCPNotFoundError for a 404 response, MCPAuthenticationError for
\* a 401 response, MCPConnectionError for every other failure (another
\* status, no response, no client).
C24_HttpFailureMapsToType ==
    (/\ last.op \in {"call_tool", "read_resource"}
     /\ last.before.kind = "http"
     /\ last.raised # "none")
    => last.raised = (IF last.contacted THEN HttpErrorFor(last.remote)
                      ELSE "MCPConnectionError")

\* C25: connect() raises MCPAuthenticationError, and does not return, when
\* the server answers the Http probe or the Sse handshake with 401.
C25_UnauthorizedConnectIsAuthError ==
    (/\ last.op = "connect"
     /\ \/ conns[last.conn].kind = "http" /\ last.outcome = "401"
        \/ conns[last.conn].kind = "sse" /\ last.outcome = "unauthorized")
    => /\ last.raised = "MCPAuthenticationError"
       /\ ~last.returned

(***************************************************************************)
(* The Sse background task                                                 *)
(***************************************************************************)

\* C22: when disconnect() of an Sse connection returns, the session task of
\* that connection is not running: a task that was in the handshake or was
\* holding the session has been cancelled and has ended, a task that had
\* ended with an error stays ended; and disconnect() does not raise.
C22_SseDisconnectEndsTask ==
    (last.op = "disconnect" /\ last.before.kind = "sse") =>
        /\ last.raised = "none"
        /\ ~TaskRunning(conns[last.conn])
        /\ conns[last.conn].task \in {"null", "failed"}
        /\ last.before.task = "failed" => conns[last.conn].task = "failed"

\* disconnect() was called while the task was still in the handshake (after a
\* connect() that had given up waiting).
C22_Witness ==
    /\ last.op = "disconnect"
    /\ last.before.kind = "sse"
    /\ last.before.task = "handshake"
    /\ conns[last.conn].task = "null"

(***************************************************************************)
(* Timing of the Sse handshake                                             *)
(***************************************************************************)

\* await asyncio.sleep(2) in SSEConnection.connect: the seconds connect()
\* waits before it looks at self.connected.
ConnectWait == 2

\* The longest handshake and the largest configured timeout, in seconds.
MaxSeconds == 4

\* config.get("timeout", 30)
Timeouts == 1..MaxSeconds

\* The second in which the background task leaves the handshake, and how:
\* initialize() returned, the stream or the handshake raised, or the server
\* answered 401.
Durations == 0..MaxSeconds
Endings == {"ok", "error", "unauthorized"}

EndingOutcome(ending) ==
    CASE ending = "ok" -> "ready"
      [] ending = "error" -> "failed"
      [] ending = "unauthorized" -> "unauthorized"

\* What connect() finds when its sleep is over.  connect() does not read
\* self.timeout: the timeout only goes to sse_client as the timeout of its
\* HTTP requests, inside the task.  A task that leaves the handshake in the
\* very second the sleep ends may run before or after connect() resumes.
SseOutcomes(timeout, duration, ending) ==
    IF duration < ConnectWait THEN {EndingOutcome(ending)}
    ELSE IF duration = ConnectWait THEN {EndingOutcome(ending), "slow"}
    ELSE {"slow"}

\* connect() on an Sse connection configured with `timeout`, the handshake
\* taking `duration` seconds.
sse_connect(c, timeout, duration, ending) ==
    /\ c \in HeldIds
    /\ conns[c].kind = "sse"
    /\ ~conns[c].started
    /\ \E outcome \in SseOutcomes(timeout, duration, ending) :
          LET o == Connect(conns[c], outcome)
          IN  /\ conns' = [conns EXCEPT ![c] = o.conn]
              /\ last' = [op |-> "connect", conn |-> c, outcome |-> outcome,
                          timeout |-> timeout, duration |-> duration,
                          ending |-> ending,
                          raised |-> o.raised, returned |-> o.returned]
    /\ UNCHANGED <<pc, tools, executors, connections, mcp_tools, mcp_resources, reply, host>>

\* A caller that constructs Sse connections and uses them itself, with the
\* time the handshake takes.
NextSse ==
    \/ new_connection("sse")
    \/ \E c \in ConnIds, timeout \in Timeouts, duration \in Durations,
          ending \in Endings : sse_connect(c, timeout, duration, ending)
    \/ \E c \in ConnIds, teardown \in Teardowns : conn_disconnect(c, teardown)
    \/ \E c \in ConnIds, op \in {"call_tool", "read_resource"},
          remote \in Remotes("sse") : conn_action(c, op, remote)
    \/ \E c \in ConnIds : sse_handshake_done(c)
    \/ \E c \in ConnIds : sse_session_error(c)

SpecSse == Init /\ [][NextSse]_vars

\* C21: Sse connect() waits for the handshake for at most the configured
\* timeout: it returns True when the handshake completes within the timeout,
\* and raises MCPTimeoutError when the timeout elapses before the handshake
\* has completed.
C21_ConnectWaitsForConfiguredTimeout ==
    (last.op = "connect" /\ conns[last.conn].kind = "sse") =>
        /\ (last.ending = "ok" /\ last.duration < last.timeout) =>
              (last.returned /\ last.raised = "none")
        /\ last.duration > last.timeout =>
              (~last.returned /\ last.raised = "MCPTimeoutError")

(***************************************************************************)
(* Properties of the connection manager's operations by server name        *)
(* (checked under SpecClient)                                              *)
(***************************************************************************)

\* C26: call_tool and read_resource of the manager, for a server name that is
\* not in the map, raise MCPNotFoundError, call no connection and leave the
\* map and the connection objects as they were.
C26_UnknownServerIsNotFound ==
    (/\ last.op \in {"client_call_tool", "client_read_resource"}
     /\ ~last.present)
    => /\ last.raised = "MCPNotFoundError"
       /\ last.calls = <<>>
       /\ connections = last.before
       /\ conns = last.objectsBefore

\* C27: list_tools and list_resources of the manager, for a server name that
\* is not in the map, return an empty list, raise nothing, contact no server
\* and leave the map and the connection objects as they were.
C27_UnknownServerListsEmpty ==
    (/\ last.op \in {"client_list_tools", "client_list_resources"}
     /\ ~last.present)
    => /\ last.raised = "none"
       /\ last.value = "empty"
       /\ ~last.contacted
       /\ connections = last.before
       /\ conns = last.objectsBefore

\* list_resources for an unknown name while another server is connected.
C27_Witness ==
    /\ last.op = "client_list_resources"
    /\ ~last.present
    /\ \E n \in ServerNames : n \in get_connected_servers

\* C28: disconnect_server(name) for a name that is not in the map raises
\* nothing and changes neither the map nor any connection object; and after
\* any disconnect_server(name), a second one changes nothing and raises
\* nothing, whatever its teardown would do.
C28_DisconnectAbsentIsNoOp ==
    last.op = "disconnect_server" =>
        /\ last.raised = "none"
        /\ ~last.present =>
              (connections = last.before /\ conns = last.objectsBefore)
        /\ \A teardown \in Teardowns :
              DisconnectServer(connections, conns, last.name, teardown) =
                 [map |-> connections, objects |-> conns, raised |-> "none",
                  called |-> NoConn]

\* disconnect_server for an absent name while another server's connection is
\* stored and live.
C28_Witness ==
    /\ last.op = "disconnect_server"
    /\ ~last.present
    /\ \E n \in ServerNames :
          connections[n] # NoConn /\ Live(conns[connections[n]])

\* C29: disconnect_all calls disconnect() on every stored connection, whether
\* or not the teardown of another one failed, raises nothing and leaves the
\* map empty.
C29_DisconnectAllEmptiesMap ==
    last.op = "disconnect_all" =>
        /\ \A n \in ServerNames : connections[n] = NoConn
        /\ last.called =
              {last.before[n] : n \in {m \in ServerNames : last.before[m] # NoConn}}
        /\ \A c \in last.called : ~is_connected(conns[c])

\* disconnect_all with two stored connections, the teardown of one of them
\* failing and the other going well.
C29_Witness ==
    /\ last.op = "disconnect_all"
    /\ Cardinality(last.called) = 2
    /\ \A c \in last.called : Live(last.objectsBefore[c])
    /\ \E n, m \in ServerNames :
          last.teardowns[n] = "error" /\ last.teardowns[m] = "clean"

(***************************************************************************)
(* The bridge's response normalization (checked under SpecSerialize)       *)
(***************************************************************************)

\* The text of a response under the precedence of four shapes: a model
\* object is serialized field by field, a list of typed content parts has its
\* parts' texts joined, a plain mapping or sequence is encoded, anything else
\* is stringified.
FourShapeText(result) ==
    IF result.model_dump THEN FieldsText(result)
    ELSE IF result.holder /\ result.content_is_list THEN JoinedText(result)
    ELSE IF result.pytype \in {"dict", "list"} THEN EncodedText(result)
    ELSE StringText(result)

NoModel(result) == ~result.model_dump
NoHolder(result) == NoModel(result) /\ ~result.holder
NoTyped(result) == NoHolder(result) /\ ~result.typed

\* The case that applies to the value has a step that can fail: model_dump(),
\* join() or json.dumps().
FailingStep(result) ==
    \/ result.model_dump
    \/ NoModel(result) /\ result.holder /\ result.content_is_list
    \/ NoTyped(result) /\ result.pytype \in {"dict", "list"}

Orphaned(conn) == conn.call = "waiting" /\ ~conn.handle

\* call_tool(tool_name, arguments) or read_resource(uri) is called on the
\* object (the two have the same guard and the same except clauses).  Without
\* a session the guard raises at once; otherwise the request is sent and the
\* method awaits the answer.
call_start(c) ==
    /\ c \in HeldIds
    /\ conns[c].call = "none"
    /\ IF ~conns[c].handle
       THEN /\ last' = [op |-> "call_end", conn |-> c, orphaned |-> FALSE,
                        raised |-> RemoteAction(conns[c], "200").raised,
                        value |-> "none"]
            /\ UNCHANGED conns
       ELSE /\ conns' = [conns EXCEPT ![c].call = "waiting"]
            /\ last' = [op |-> "call_start", conn |-> c]
    /\ UNCHANGED <<pc, tools, executors, connections, mcp_tools, mcp_resources, reply, host>>

\* The answer arrives while the session is there: the awaited request returns
\* or raises, and the method returns the value or raises what its except
\* clause makes of the error.
call_reply(c, remote) ==
    /\ conns[c].call = "waiting"
    /\ conns[c].handle
    /\ remote \in Remotes(conns[c].kind)
    /\ LET o == RemoteAction(conns[c], remote)
       IN  /\ conns' = [conns EXCEPT ![c].call = "none"]
           /\ last' = [op |-> "call_end", conn |-> c, orphaned |-> FALSE,
                       raised |-> o.raised, value |-> o.value]
    /\ UNCHANGED <<pc, tools, executors, connections, mcp_tools, mcp_resources, reply, host>>

\* The session or client the call awaits has been closed: the awaited
\* request raises, and the except clause of the method, entered before the
\* connection went away, decides what the caller gets.
call_abort(c) ==
    /\ Orphaned(conns[c])
    /\ LET o == RemoteAction([conns[c] EXCEPT !.handle = TRUE], "request_error")
       IN  /\ conns' = [conns EXCEPT ![c].call = "none"]
           /\ last' = [op |-> "call_end", conn |-> c, orphaned |-> TRUE,
                       raised |-> o.raised, value |-> o.value]
    /\ UNCHANGED <<pc, tools, executors, connections, mcp_tools, mcp_resources, reply, host>>

\* The session the call awaits has been closed and does not wake the request:
\* neither disconnect() nor call_tool()/read_resource() has a deadline or a
\* record of the calls in flight, so nothing else ends the wait.  (A request
\* of the Http variant carries the client's timeout and ends by it.)
call_lost(c) ==
    /\ Orphaned(conns[c])
    /\ conns[c].kind \in {"stdio", "sse"}
    /\ conns' = [conns EXCEPT ![c].call = "lost"]
    /\ last' = [op |-> "call_lost", conn |-> c]
    /\ UNCHANGED <<pc, tools, executors, connections, mcp_tools, mcp_resources, reply, host>>

\* A caller with calls in flight on its connections while it disconnects
\* them, or while an Sse session ends.
NextCalls ==
    \/ \E kind \in Kinds : new_connection(kind)
    \/ \E c \in ConnIds, outcome \in {"200", "ok", "ready"} :
          conn_connect(c, outcome)
    \/ \E c \in ConnIds, teardown \in Teardowns : conn_disconnect(c, teardown)
    \/ \E c \in ConnIds : sse_session_error(c)
    \/ \E c \in ConnIds : call_start(c)
    \/ \E c \in ConnIds, remote \in {"200", "request_error"} : call_reply(c, remote)
    \/ \E c \in ConnIds : call_abort(c)
    \/ \E c \in ConnIds : call_lost(c)

\* The event loop runs a coroutine whose awaited request has raised.
SpecCalls ==
    /\ Init
    /\ [][NextCalls]_vars
    /\ \A c \in ConnIds : WF_vars(call_abort(c))

\* C23: a call_tool or read_resource that is in flight when its connection is
\* disconnected, or when its Sse session ends, is resolved in the end, and
\* what resolves it is MCPConnectionError: never a value, never another
\* exception, never an endless wait.
C23_InFlightCallEndsInConnectionError ==
    /\ []((last.op = "call_end" /\ last.orphaned) =>
              (last.raised = "MCPConnectionError" /\ last.value = "none"))
    /\ \A c \in ConnIds : Orphaned(conns[c]) ~> (conns[c].call = "none")

(***************************************************************************)
(* Parameter schemas of discovered tools (checked under SpecSchema)        *)
(***************************************************************************)

\* The input schemas a server announces for its tool "x": any property map
\* over the parameter names with any required list over them.  A JSON schema
\* may require a name for which it declares no property.
SchemaDefs ==
    {[name |-> "x", properties |-> P, required |-> R] :
        P \in SUBSET ParamNames, R \in SUBSET ParamNames}

\* Discovery of a server that announces one tool, with any schema.
NextSchema ==
    \/ \E config_type \in BridgeConfigTypes : connect_server("a", config_type)
    \/ \E teardown \in Teardowns : disconnect_server("a", teardown)
    \/ \E tool_def \in SchemaDefs, resources \in ResourcesOf("a") :
          discover_and_register_tools("a", {tool_def}, resources)

SpecSchema == Init /\ [][NextSchema]_vars

\* The entries get_tool_definitions() shows under a name.
EntriesNamed(name) ==
    {get_tool_definitions[i] : i \in {j \in DOMAIN get_tool_definitions :
                                         get_tool_definitions[j].name = name}}

\* The tools a discovery has just registered for its server.
JustDiscovered ==
    IF last.op = "discover_and_register_tools" /\ last.listed = "catalog"
    THEN {t \in last.catalog : t.name # ""}
    ELSE {}

InitializeCompletes(c) ==
    \/ /\ last'.op = "connect"
       /\ last'.conn = c
       /\ last'.outcome \in {"ok", "ready"}
    \/ /\ last'.op = "sse_handshake_done"
       /\ last'.conn = c

\* The step in which the handshake of object c fails: a Stdio connect() that
\* raises, an Sse task that ends with an exception.
InitializeFails(c) ==
    \/ /\ last'.op = "connect"
       /\ last'.conn = c
       /\ last'.outcome \in {"no_mcp", "spawn_fail", "init_fail", "failed",
                             "unauthorized"}
    \/ /\ last'.op = "sse_session_error"
       /\ last'.conn = c

\* C36: a Stdio or Sse object starts to report is_connected() only in the
\* step in which its initialize exchange completes; it does not report it
\* while its handshake is pending, nor in the step in which the handshake
\* fails, nor at any time after a failed handshake.
C36_ConnectedOnlyAfterInitialize ==
    [][\A c \in ConnIds :
          conns'[c].kind \in {"stdio", "sse"} =>
             /\ (is_connected(conns'[c]) /\ ~is_connected(conns[c])
                    => InitializeCompletes(c))
             /\ (conns'[c].task = "handshake" => ~is_connected(conns'[c]))
             /\ (InitializeFails(c) => ~is_connected(conns'[c]))
             /\ (conns[c].task = "failed" => ~is_connected(conns'[c]))
             /\ (conns[c].kind = "stdio" /\ conns[c].started
                    /\ ~is_connected(conns[c]) => ~is_connected(conns'[c]))]_vars

\* An Sse object whose pending handshake has just completed reports
\* connected, next to a Stdio object whose handshake failed and which does not.
C36_Witness ==
    /\ last.op = "sse_handshake_done"
    /\ is_connected(conns[last.conn])
    /\ \E c \in ConnIds :
          /\ conns[c].kind = "stdio"
          /\ conns[c].started
          /\ conns[c].handle
          /\ ~is_connected(conns[c])

(***************************************************************************)
(* An Sse session that ends on its own (checked under SpecClient)          *)
(***************************************************************************)

\* The map holds, under this name, an Sse connection whose background task
\* has ended with an exception.  The manager stores a connection only when
\* connect() saw it connected, so the task ended after that.
EndedOnItsOwn(map, objects, name) ==
    /\ map[name] # NoConn
    /\ objects[map[name]].kind = "sse"
    /\ objects[map[name]].task = "failed"

\* C39: once the background session of a stored Sse connection has ended on
\* its own, the connection reports not connected and holds no session,
\* get_connected_servers leaves the server out, call_tool and read_resource
\* on it raise MCPConnectionError without reaching a session, list_tools and
\* list_resources return empty; and it stays so, with its entry in the map,
\* until disconnect_server, disconnect_all or a new connect_server on the name.
C39_EndedSessionIsNotConnected ==
    /\ [](/\ \A n \in ServerNames :
                EndedOnItsOwn(connections, conns, n) =>
                   /\ ~is_connected(conns[connections[n]])
                   /\ ~conns[connections[n]].handle
                   /\ n \notin get_connected_servers
          /\ (/\ last.op \in {"client_call_tool", "client_read_resource"}
              /\ EndedOnItsOwn(last.before, last.objectsBefore, last.server))
                => /\ last.raised = "MCPConnectionError"
                   /\ last.value = "none"
          /\ (/\ last.op \in {"client_list_tools", "client_list_resources"}
              /\ EndedOnItsOwn(last.before, last.objectsBefore, last.server))
                => /\ last.raised = "none"
                   /\ last.value = "empty"
                   /\ ~last.contacted
          /\ last.op = "sse_session_error" =>
                \A n \in ServerNames :
                   connections[n] = last.conn => EndedOnItsOwn(connections, conns, n))
    /\ [][\A n \in ServerNames :
             (/\ EndedOnItsOwn(connections, conns, n)
              /\ ~EndedOnItsOwn(connections', conns', n))
                => \/ last'.op = "disconnect_server" /\ last'.name = n
                   \/ last'.op = "disconnect_all"
                   \/ last'.op = "connect_server" /\ last'.name = n]_vars

\* A tool call through the manager on a server whose Sse session had ended on
\* its own: the entry is still in the map, the server is not listed as
\* connected and the call raises MCPConnectionError.
C39_Witness ==
    /\ last.op = "client_call_tool"
    /\ EndedOnItsOwn(connections, conns, last.server)
    /\ last.raised = "MCPConnectionError"
    /\ last.server \notin get_connected_servers

(***************************************************************************)
(* An Sse task whose connect() gave up (checked under SpecConnection)      *)
(***************************************************************************)

\* connect() has raised on this Sse object while its background task was
\* still in the handshake: connect() is one step, so a task found in the
\* handshake is one that connect() has stopped waiting for.
Abandoned(conn) ==
    /\ conn.kind = "sse"
    /\ conn.started
    /\ conn.task = "handshake"

\* C33: an Sse connection whose connect() has failed while the background
\* task was still in the handshake never becomes connected and never holds a
\* session: the task, on completing the handshake, tears itself down.
C33_AbandonedTaskNeverConnects ==
    [][\A c \in ConnIds :
          Abandoned(conns[c]) =>
             /\ ~is_connected(conns'[c])
             /\ ~conns'[c].handle]_vars

(***************************************************************************)
(* What a failed connect_server leaves behind (checked under Spec)         *)
(***************************************************************************)

\* The object still owns something that runs: an Sse session task that has
\* not ended, or the child process and streams of a Stdio connection whose
\* spawn succeeded (its context and its session are set).
LeftAlive(conn) ==
    \/ conn.kind = "sse" /\ TaskRunning(conn)
    \/ conn.kind = "stdio" /\ conn.ctx /\ conn.handle

\* C34: when connect_server has failed, so that the manager's map holds no
\* connection made by that call, the connection object the call created owns
\* no running Sse session task and no open Stdio child process or stream.
C34_FailedConnectLeavesNothingAlive ==
    (/\ last.op = "connect_server"
     /\ last.raised # "none"
     /\ last.conn # NoConn)
    => /\ \A n \in ServerNames : connections[n] # last.conn
       /\ ~LeftAlive(conns[last.conn])

(***************************************************************************)
(* Replacing a stored connection (checked under Spec)                      *)
(***************************************************************************)

\* C38: when connect_server succeeds for a name that was already in the map,
\* the connection stored before is torn down: it holds no session, client,
\* process or background task once the new connection has taken its entry.
C38_ReplacedConnectionIsTornDown ==
    (/\ last.op = "connect_server"
     /\ last.raised = "none"
     /\ last.returned
     /\ last.before[last.name] # NoConn)
    => /\ connections[last.name] = last.conn
       /\ ~Live(conns[last.before[last.name]])

(***************************************************************************)
(* Tool results flagged as errors (checked under SpecFlagged)              *)
(***************************************************************************)

\* What the server answers to a tool call: a result, a failure, or a result
\* that carries isError = true.
FlaggedReplies == Replies \cup {"is_error"}

\* Calls of the tools discovered from server "a_b" while the server's answers
\* change between results, failures and results flagged as errors.
NextFlagged ==
    \/ \E config_type \in BridgeConfigTypes : connect_server("a_b", config_type)
    \/ \E teardown \in Teardowns : disconnect_server("a_b", teardown)
    \/ \E r \in FlaggedReplies : server_reply(r)
    \/ \E catalog \in CatalogsOf("a_b"), resources \in ResourcesOf("a_b") :
          discover_and_register_tools("a_b", catalog, resources)
    \/ \E name \in NamesOf("a_b"), arguments \in BridgeArgs :
          tools[name].registered /\ execute_tool(name, arguments)

SpecFlagged == Init /\ [][NextFlagged]_vars

\* C40: execute_tool on a tool the bridge registered for a server's tool
\* returns success = true only when the remote call was made and its result
\* is not flagged as an error; when the remote result carries isError = true
\* the caller gets success = false with an error.
C40_FlaggedResultIsFailure ==
    (/\ last.op = "execute_tool"
     /\ last.registered
     /\ last.executor \in ToolExecutors)
    => /\ last.result.success => (Len(last.calls) = 1 /\ reply = "200")
       /\ (Len(last.calls) = 1 /\ reply = "is_error") =>
             /\ ~last.result.success
             /\ last.result.error # NoError

(***************************************************************************)
(* Names of discovered tools and independence of servers                   *)
(* (checked under SpecServers)                                             *)
(***************************************************************************)

\* The tools of a server that calls one of its tools read_resource and
\* another b_x.
NamingDefs ==
    {[name |-> "read_resource", properties |-> {"p"}, required |-> {"p"}],
     [name |-> "b_x", properties |-> {"p"}, required |-> {"p"}]}

\* Server "a" has no resource or one; server "a_b" its fixed list.
NamingResourcesOf(name) ==
    IF name = "a" THEN {{}, {1}} ELSE ResourcesOf(name)

\* Server "a" announces none or one of these tools; server "a_b" its fixed
\* catalog.
NamingCatalogsOf(name) ==
    IF name = "a" THEN {{}} \cup {{t} : t \in NamingDefs} ELSE CatalogsOf(name)

\* Every operation that is addressed to one server: connecting, listing,
\* calling, reading, discovering, refreshing and disconnecting, by name.
NextServers ==
    \/ \E name \in ServerNames, config_type \in BridgeConfigTypes :
          connect_server(name, config_type)
    \/ \E name \in ServerNames, teardown \in Teardowns :
          disconnect_server(name, teardown)
    \/ \E name \in ServerNames,
          op \in {"client_list_tools", "client_list_resources"} :
          client_list(name, op, "200")
    \/ \E name \in ServerNames,
          op \in {"client_call_tool", "client_read_resource"} :
          client_action(name, op, "200")
    \/ \E name \in ServerNames :
          \E catalog \in NamingCatalogsOf(name), resources \in NamingResourcesOf(name) :
             discover_and_register_tools(name, catalog, resources)
    \/ \E name \in ServerNames :
          \E catalog \in NamingCatalogsOf(name), resources \in NamingResourcesOf(name) :
             refresh_server_tools(name, catalog, resources)

SpecServers == Init /\ [][NextServers]_vars

\* The registry names attributed to a server: those the bridge records as a
\* tool of that server and those that run one of its resource executors.
AttributedTo(server_name) ==
    {n \in BridgeNames :
        \/ mcp_tools[n].present /\ mcp_tools[n].server = server_name
        \/ executors[n] \in {create_resource_executor(server_name),
                             create_resource_list_executor(server_name)}}

\* C37: a discovery never overwrites an entry of another server or of another
\* tool.  After it, every tool the server announced and, when the server has
\* resources, each of its two resource-access tools is registered under a
\* name of its own: the registry entry under the tool's name runs the proxy
\* of that tool, the bridge's record under that name is the tool's, and the
\* entries of the two resource-access tools run the resource executors.  And
\* the registry entries and bridge records that were attributed to another
\* server are as they were.
C37_NamesDoNotCollide ==
    [][(last'.op = "discover_and_register_tools" /\ last'.listed = "catalog") =>
          /\ \A t \in {d \in last'.catalog : d.name # ""} :
                LET unique == unique_tool_name(last'.server, t.name)
                IN  /\ tools'[unique].registered
                    /\ executors'[unique] = create_mcp_tool_executor(unique)
                    /\ mcp_tools'[unique].present
                    /\ mcp_tools'[unique].server = last'.server
                    /\ mcp_tools'[unique].original_name = t.name
          /\ last'.resources # {} =>
                /\ executors'[read_resource_tool_name(last'.server)]
                      = create_resource_executor(last'.server)
                /\ executors'[list_resources_tool_name(last'.server)]
                      = create_resource_list_executor(last'.server)
          /\ \A other \in ServerNames \ {last'.server} :
                \A n \in AttributedTo(other) :
                   /\ executors'[n] = executors[n]
                   /\ mcp_tools'[n] = mcp_tools[n]]_vars

\* The server an operation is addressed to.
ServerOf(rec) ==
    IF rec.op \in {"connect_server", "disconnect_server"} THEN rec.name ELSE rec.server

\* C32: an operation addressed to one server leaves every other server as it
\* was: its entry in the connection map, the state of its connection object,
\* the registry entries and bridge records attributed to it and its resource
\* record.
C32_OtherServersUntouched ==
    [][\A other \in ServerNames :
          ServerOf(last') # other =>
             /\ connections'[other] = connections[other]
             /\ connections[other] # NoConn =>
                   conns'[connections[other]] = conns[connections[other]]
             /\ mcp_resources'[other] = mcp_resources[other]
             /\ \A n \in AttributedTo(other) :
                   /\ tools'[n] = tools[n]
                   /\ executors'[n] = executors[n]
                   /\ mcp_tools'[n] = mcp_tools[n]]_vars

(***************************************************************************)
(* A refresh interleaved with users of the registry                        *)
(* (checked under SpecRefresh)                                             *)
(***************************************************************************)

\* refresh_server_tools up to its first suspension.  With tools of the
\* server to remove, the first tool_manager.unregister_tool raises
\* AttributeError and the call is over.  Otherwise the server's resource
\* record is deleted and the call awaits list_tools() of the server, which
\* will announce `catalog` and `resources`.
refresh_begin(server_name, catalog, resources) ==
    /\ pc = Idle
    /\ IF ToolsOfServer(server_name) # {}
       THEN /\ last' = [op |-> "refresh_server_tools", server |-> server_name,
                        catalog |-> catalog, resources |-> resources,
                        listed |-> MCPClient_list(server_name, reply).value,
                        raised |-> "AttributeError"]
            /\ UNCHANGED <<pc, mcp_resources>>
       ELSE /\ mcp_resources' = [mcp_resources EXCEPT ![server_name] = NoResources]
            /\ pc' = [at |-> "list_tools", server |-> server_name,
                      catalog |-> catalog, resources |-> resources,
                      before |-> Current]
            /\ last' = [op |-> "refresh_begin", server |-> server_name]
    /\ UNCHANGED <<tools, executors, conns, connections, mcp_tools, reply, host>>

\* list_tools() has returned: every tool is registered, without a suspension
\* in between (_register_mcp_tool awaits nothing), and the call awaits
\* list_resources() of the server.
refresh_tools_listed ==
    /\ pc # Idle
    /\ pc.at = "list_tools"
    /\ LET found == IF MCPClient_list(pc.server, reply).value = "catalog"
                    THEN pc.catalog ELSE {}
           st == RegisterAll(Current, pc.server, found)
       IN  /\ tools' = st.tools
           /\ executors' = st.executors
           /\ mcp_tools' = st.mcp_tools
    /\ pc' = [pc EXCEPT !.at = "list_resources"]
    /\ last' = [op |-> "refresh_tools_listed", server |-> pc.server]
    /\ UNCHANGED <<conns, connections, mcp_resources, reply, host>>

\* list_resources() has returned: the resource record is stored, the two
\* resource-access tools are registered and refresh_server_tools returns.
refresh_resources_listed ==
    /\ pc # Idle
    /\ pc.at = "list_resources"
    /\ LET listed == IF MCPClient_list(pc.server, reply).value = "catalog"
                     THEN pc.resources ELSE {}
           st == discover_and_register_resources(Current, pc.server, listed)
       IN  /\ tools' = st.tools
           /\ executors' = st.executors
           /\ mcp_tools' = st.mcp_tools
           /\ mcp_resources' = st.mcp_resources
    /\ pc' = Idle
    /\ last' = [op |-> "refresh_server_tools", server |-> pc.server,
                catalog |-> pc.catalog, resources |-> pc.resources,
                listed |-> MCPClient_list(pc.server, reply).value,
                raised |-> "none"]
    /\ UNCHANGED <<conns, connections, reply, host>>

\* A user of the registry reads get_tool_definitions().
read_definitions ==
    /\ last' = [op |-> "get_tool_definitions", value |-> get_tool_definitions]
    /\ UNCHANGED <<pc, tools, executors, conns, connections, mcp_tools,
                   mcp_resources, reply, host>>

\* Servers are connected and discovered; a refresh then runs step by step
\* while users of the registry execute tools and read the definitions
\* between its steps.
NextRefresh ==
    \/ \E name \in ServerNames, config_type \in BridgeConfigTypes :
          pc = Idle /\ connect_server(name, config_type)
    \/ \E name \in ServerNames :
          \E catalog \in CatalogsOf(name), resources \in ResourcesOf(name) :
             pc = Idle /\ discover_and_register_tools(name, catalog, resources)
    \/ \E name \in ServerNames :
          \E catalog \in CatalogsOf(name), resources \in ResourcesOf(name) :
             refresh_begin(name, catalog, resources)
    \/ refresh_tools_listed
    \/ refresh_resources_listed
    \/ \E name \in BridgeNames, arguments \in BridgeArgs :
          tools[name].registered /\ execute_tool(name, arguments)
    \/ read_definitions

SpecRefresh == Init /\ [][NextRefresh]_vars

\* What the refresh in progress leaves when it is over.
Refreshed ==
    Discovered([pc.before EXCEPT !.mcp_resources[pc.server] = NoResources],
               pc.server, pc.catalog, pc.resources)

\* What execute_tool(name, ...) reads of the registry and of the bridge's
\* records `st`: the descriptor, the executor, the executor's tool record
\* and, for a list-resources executor, the resources stored for its server.
Seen(st, name) ==
    [tool |-> st.tools[name],
     executor |-> st.executors[name],
     info |-> st.mcp_tools[name],
     resources |->
        IF \E n \in ServerNames :
              st.executors[name] = create_resource_list_executor(n)
        THEN st.mcp_resources[
                CHOOSE n \in ServerNames :
                   st.executors[name] = create_resource_list_executor(n)].resources
        ELSE {}]

\* C35: a get_tool_definitions that runs between the steps of a
\* refresh_server_tools call reads the descriptors either as they were before
\* the refresh or as the refresh leaves them, and an execute_tool that runs
\* between the steps finds what it reads of its tool in one of these two
\* states: neither sees the server's entries removed and not yet, or only
\* partly, registered again.
C35_RefreshLooksAtomic ==
    pc # Idle =>
       /\ last.op = "get_tool_definitions" =>
             tools \in {pc.before.tools, Refreshed.tools}
       /\ last.op = "execute_tool" =>
             Seen(Current, last.name)
                \in {Seen(pc.before, last.name), Seen(Refreshed, last.name)}

====
